---------------------------- MODULE Spec2Model ----------------------------
(***************************************************************************)
(* A model of the sketch construction core of binary_type_inference:       *)
(*   - MappingGraph (src/graph_algos/mapping_graph.rs): a stable directed  *)
(*     multigraph with a key -> node map and its reverse;                  *)
(*   - the quotient engine and the sketch builder                          *)
(*     (src/solver/type_sketch.rs).                                        *)
(* A graph value is a record; every operation of the source is an          *)
(* operator from graph values to graph values, and the specifications      *)
(* below apply these operators as the steps of state machines.             *)
(***************************************************************************)
EXTENDS Integers, Sequences, FiniteSets, TLC

VARIABLES g, op, skb

vars == <<g, op, skb>>

---------------------------------------------------------------------------
(* Bounds of the model.                                                    *)

MaxNodes == 3
MaxEdges == 2
MaxCons == 1

---------------------------------------------------------------------------
(* The atomic type lattice of the tests: bottom < char, int < bytetype <   *)
(* top.                                                                    *)

LatticeElems == {"bottom", "char", "int", "bytetype", "top"}

Leq(a, b) ==
    \/ a = b
    \/ a = "bottom"
    \/ b = "top"
    \/ (a \in {"char", "int"} /\ b = "bytetype")

\* The least upper bound and the greatest lower bound of every two elements.
JoinTable ==
    [a \in LatticeElems |-> [b \in LatticeElems |->
        CHOOSE u \in LatticeElems :
            /\ Leq(a, u) /\ Leq(b, u)
            /\ \A v \in LatticeElems : (Leq(a, v) /\ Leq(b, v)) => Leq(u, v)]]

MeetTable ==
    [a \in LatticeElems |-> [b \in LatticeElems |->
        CHOOSE l \in LatticeElems :
            /\ Leq(l, a) /\ Leq(l, b)
            /\ \A v \in LatticeElems : (Leq(v, a) /\ Leq(v, b)) => Leq(v, l)]]

join(a, b) == JoinTable[a][b]

meet(a, b) == MeetTable[a][b]

LatticeBounds(upper, lower) == [upper_bound |-> upper, lower_bound |-> lower]

identity_element == LatticeBounds("top", "bottom")

refine_lower(b, other) == LatticeBounds(b.upper_bound, join(b.lower_bound, other))

refine_upper(b, other) == LatticeBounds(meet(b.upper_bound, other), b.lower_bound)

bounds_join(a, b) ==
    LatticeBounds(join(a.upper_bound, b.upper_bound), join(a.lower_bound, b.lower_bound))

bounds_meet(a, b) ==
    LatticeBounds(meet(a.upper_bound, b.upper_bound), meet(a.lower_bound, b.lower_bound))

operate(left, right) ==
    LatticeBounds(meet(right.upper_bound, left.upper_bound),
                  join(right.lower_bound, left.lower_bound))

---------------------------------------------------------------------------
(* Derived type variables and field labels.                                *)

DTV(base, tag, path) == [base |-> base, tag |-> tag, path |-> path]

Load == "load"
Store == "store"

---------------------------------------------------------------------------
(* The underlying StableDiGraph.  nd maps the live node indices to their   *)
(* weights, ed is the multiset of edges <<source, weight, target>> (an     *)
(* edge to its number of copies), free is the list of vacant indices (the  *)
(* most recently vacated first) and n the number of slots ever allocated.  *)
(* nodes and reprs are the two maps of the MappingGraph.                   *)

EmptyFun == [x \in {} |-> x]

new ==
    [nd |-> EmptyFun, ed |-> EmptyFun, free |-> <<>>, n |-> 0,
     nodes |-> EmptyFun, reprs |-> EmptyFun]

node_indices(gr) == DOMAIN gr.nd

Edges(gr) == DOMAIN gr.ed

Src(e) == e[1]
Wt(e) == e[2]
Dst(e) == e[3]

Outgoing(gr, x) == {e \in Edges(gr) : Src(e) = x}

Incoming(gr, x) == {e \in Edges(gr) : Dst(e) = x}

\* StableGraph::add_node: the index the next node gets.
next_index(gr) == IF gr.free # <<>> THEN Head(gr.free) ELSE gr.n

grph_add_node(gr, weight) ==
    IF gr.free # <<>>
    THEN [gr EXCEPT !.nd = (Head(gr.free) :> weight) @@ @, !.free = Tail(@)]
    ELSE [gr EXCEPT !.nd = (gr.n :> weight) @@ @, !.n = @ + 1]

\* StableGraph::add_edge: no check for an equal edge.
grph_add_edge(gr, a, b, e) ==
    LET t == <<a, e, b>> IN
    [gr EXCEPT !.ed = IF t \in DOMAIN @ THEN [@ EXCEPT ![t] = @ + 1]
                      ELSE (t :> 1) @@ @]

\* StableGraph::remove_node: the node, its edges, and the slot is vacated.
grph_remove_node(gr, idx) ==
    IF idx \notin DOMAIN gr.nd THEN gr
    ELSE [gr EXCEPT
            !.nd = [i \in DOMAIN @ \ {idx} |-> @[i]],
            !.ed = [t \in {e \in DOMAIN @ : Src(e) # idx /\ Dst(e) # idx} |-> @[t]],
            !.free = <<idx>> \o @]

get_group_for_node(gr, idx) ==
    IF idx \in DOMAIN gr.reprs THEN gr.reprs[idx] ELSE {}

get_node(gr, key) == gr.nodes[key]

has_node(gr, key) == key \in DOMAIN gr.nodes

edges_between(gr, a, b) == {e \in Outgoing(gr, a) : Dst(e) = b}

add_edge_nodedup(gr, a, b, e) == grph_add_edge(gr, a, b, e)

add_edge(gr, a, b, e) ==
    IF ~ \E x \in edges_between(gr, a, b) : Wt(x) = e
    THEN grph_add_edge(gr, a, b, e)
    ELSE gr

\* add_edge over a collected list of edges (each is added unless present).
RECURSIVE add_edges(_, _)
add_edges(gr, S) ==
    IF S = {} THEN gr
    ELSE LET t == CHOOSE x \in S : TRUE
         IN add_edges(add_edge(gr, Src(t), Dst(t), Wt(t)), S \ {t})

reprs_insert(reprs, idx, key) ==
    IF idx \in DOMAIN reprs THEN [reprs EXCEPT ![idx] = @ \cup {key}]
    ELSE (idx :> {key}) @@ reprs

nodes_insert(nodes, key, idx) ==
    IF key \in DOMAIN nodes THEN [nodes EXCEPT ![key] = idx]
    ELSE (key :> idx) @@ nodes

fun_remove(f, x) == [y \in DOMAIN f \ {x} |-> f[y]]

add_node(gr, key, weight) ==
    IF key \in DOMAIN gr.nodes
    THEN [gr EXCEPT !.nd[gr.nodes[key]] = operate(@, weight)]
    ELSE LET idx == next_index(gr)
             g1 == grph_add_node(gr, weight)
         IN [g1 EXCEPT !.nodes = nodes_insert(@, key, idx),
                       !.reprs = reprs_insert(@, idx, key)]

add_node_idx(gr, key) ==
    IF key \in DOMAIN gr.nodes THEN gr.nodes[key] ELSE next_index(gr)

update_all_children_of_idx_to(gr, old_idx, new_idx) ==
    LET old_set == get_group_for_node(gr, old_idx)
        new_set == get_group_for_node(gr, new_idx) \cup old_set
    IN [gr EXCEPT
          !.nodes = [k \in DOMAIN @ |-> IF k \in old_set THEN new_idx ELSE @[k]],
          !.reprs = fun_remove((new_idx :> new_set) @@ @, old_idx)]

\* merge_nodes with the four lists of edges collected before any edge is
\* added.
merge_nodes_collected_first(gr, key1, key2) ==
    IF ~has_node(gr, key1) /\ ~has_node(gr, key2) THEN gr
    ELSE IF ~has_node(gr, key1) THEN
        [gr EXCEPT !.nodes = nodes_insert(@, key1, gr.nodes[key2]),
                   !.reprs = reprs_insert(@, gr.nodes[key2], key1)]
    ELSE IF ~has_node(gr, key2) THEN
        [gr EXCEPT !.nodes = nodes_insert(@, key2, gr.nodes[key1]),
                   !.reprs = reprs_insert(@, gr.nodes[key1], key2)]
    ELSE IF gr.nodes[key1] # gr.nodes[key2] THEN
        LET fst == gr.nodes[key1]
            snd == gr.nodes[key2]
            new_idx == next_index(gr)
            g0 == grph_add_node(gr, operate(gr.nd[fst], gr.nd[snd]))
            g1 == update_all_children_of_idx_to(g0, fst, new_idx)
            g2 == update_all_children_of_idx_to(g1, snd, new_idx)
            g6 == add_edges(g2, {<<new_idx, Wt(e), Dst(e)>> : e \in Outgoing(g2, fst)}
                                   \cup {<<Src(e), Wt(e), new_idx>> : e \in Incoming(g2, fst)}
                                   \cup {<<new_idx, Wt(e), Dst(e)>> : e \in Outgoing(g2, snd)}
                                   \cup {<<Src(e), Wt(e), new_idx>> : e \in Incoming(g2, snd)})
        IN grph_remove_node(grph_remove_node(g6, fst), snd)
    ELSE gr

merge_nodes(gr, key1, key2) ==
    IF ~has_node(gr, key1) /\ ~has_node(gr, key2) THEN gr
    ELSE IF ~has_node(gr, key1) THEN
        [gr EXCEPT !.nodes = nodes_insert(@, key1, gr.nodes[key2]),
                   !.reprs = reprs_insert(@, gr.nodes[key2], key1)]
    ELSE IF ~has_node(gr, key2) THEN
        [gr EXCEPT !.nodes = nodes_insert(@, key2, gr.nodes[key1]),
                   !.reprs = reprs_insert(@, gr.nodes[key1], key2)]
    ELSE IF gr.nodes[key1] # gr.nodes[key2] THEN
        LET fst == gr.nodes[key1]
            snd == gr.nodes[key2]
            new_idx == next_index(gr)
            g0 == grph_add_node(gr, operate(gr.nd[fst], gr.nd[snd]))
            g1 == update_all_children_of_idx_to(g0, fst, new_idx)
            g2 == update_all_children_of_idx_to(g1, snd, new_idx)
            g3 == add_edges(g2, {<<new_idx, Wt(e), Dst(e)>> : e \in Outgoing(g2, fst)})
            g4 == add_edges(g3, {<<Src(e), Wt(e), new_idx>> : e \in Incoming(g3, fst)})
            g5 == add_edges(g4, {<<new_idx, Wt(e), Dst(e)>> : e \in Outgoing(g4, snd)})
            g6 == add_edges(g5, {<<Src(e), Wt(e), new_idx>> : e \in Incoming(g5, snd)})
        IN grph_remove_node(grph_remove_node(g6, fst), snd)
    ELSE gr

remove_node_by_idx(gr, idx) ==
    LET nd_set == get_group_for_node(gr, idx)
        g1 == [gr EXCEPT !.reprs = fun_remove(@, idx),
                         !.nodes = [k \in DOMAIN @ \ nd_set |-> @[k]]]
    IN grph_remove_node(g1, idx)

\* remove_node that drops the node with every key it has.
remove_node_with_group(gr, key) ==
    IF ~has_node(gr, key) THEN gr
    ELSE LET idx == gr.nodes[key]
             nd_set == get_group_for_node(gr, idx)
             g1 == [gr EXCEPT !.reprs = fun_remove(@, idx),
                              !.nodes = [k \in DOMAIN @ \ nd_set |-> @[k]]]
         IN grph_remove_node(g1, idx)

remove_node(gr, key) ==
    IF ~has_node(gr, key) THEN gr
    ELSE LET idx == gr.nodes[key]
             mapping == gr.reprs[idx] \ {key}
             g1 == [gr EXCEPT !.reprs[idx] = mapping,
                              !.nodes = fun_remove(@, key)]
         IN IF mapping = {}
            THEN grph_remove_node([g1 EXCEPT !.reprs = fun_remove(@, idx)], idx)
            ELSE g1

---------------------------------------------------------------------------
(* The quotient engine.  The union-find is the function from 0 .. max      *)
(* index to the representative of the element's class.                     *)

SetMax(S) == CHOOSE x \in S : \A y \in S : y <= x

SetMin(S) == CHOOSE x \in S : \A y \in S : x <= y

uf_new(size) == [i \in 0 .. (size - 1) |-> i]

uf_equiv(uf, a, b) == uf[a] = uf[b]

uf_union(uf, a, b) ==
    LET ra == uf[a]
        rb == uf[b]
        r == IF ra <= rb THEN ra ELSE rb
    IN [i \in DOMAIN uf |-> IF uf[i] = ra \/ uf[i] = rb THEN r ELSE uf[i]]

\* A constraint is the pair <<lhs, rhs>> of derived type variables.
RECURSIVE uf_union_all(_, _, _)
uf_union_all(uf, gr, cons) ==
    IF cons = {} THEN uf
    ELSE LET c == CHOOSE x \in cons : TRUE
         IN uf_union_all(uf_union(uf, get_node(gr, c[1]), get_node(gr, c[2])),
                         gr, cons \ {c})

constraint_quotients(gr, cons) ==
    uf_union_all(uf_new(SetMax(node_indices(gr)) + 1), gr, cons)

EdgeImplication(eq, edge) == [eq |-> eq, edge |-> edge]

\* get_edge_set with implications between edges of equal weight only.
get_edge_set_samelabel(gr) ==
    {EdgeImplication(<<Src(p[1]), Src(p[2])>>, <<Dst(p[1]), Dst(p[2])>>) :
        p \in {q \in Edges(gr) \X Edges(gr) : Wt(q[1]) = Wt(q[2])}}

get_edge_set(gr) ==
    {EdgeImplication(<<Src(p[1]), Src(p[2])>>, <<Dst(p[1]), Dst(p[2])>>) :
        p \in {q \in Edges(gr) \X Edges(gr) :
                  \/ Wt(q[1]) = Wt(q[2])
                  \/ (Wt(q[1]) = Load /\ Wt(q[2]) = Store)}}

\* One run of the for loop over a snapshot of the pending implications.
RECURSIVE implication_pass(_, _, _)
implication_pass(cons, pending, snapshot) ==
    IF snapshot = {} THEN [cons |-> cons, pending |-> pending]
    ELSE LET implic == CHOOSE x \in snapshot : TRUE
         IN IF uf_equiv(cons, implic.eq[1], implic.eq[2])
            THEN implication_pass(uf_union(cons, implic.edge[1], implic.edge[2]),
                                  pending \ {implic}, snapshot \ {implic})
            ELSE implication_pass(cons, pending, snapshot \ {implic})

\* The while loop: passes until one leaves the labeling unchanged.
RECURSIVE implication_fixpoint(_, _)
implication_fixpoint(cons, pending) ==
    LET r == implication_pass(cons, pending, pending)
    IN IF r.cons # cons THEN implication_fixpoint(r.cons, r.pending) ELSE r.cons

groups_of_labeling(gr, labeling) ==
    {{i \in node_indices(gr) : labeling[i] = labeling[j]} : j \in node_indices(gr)}

generate_quotient_groups_noclosure(gr, cons) ==
    groups_of_labeling(gr, constraint_quotients(gr, cons))

\* The set of groups; the Vec the source returns lists them in the
\* iteration order of a HashMap, see GroupOrders.
generate_quotient_groups(gr, cons) ==
    groups_of_labeling(gr,
        implication_fixpoint(constraint_quotients(gr, cons), get_edge_set(gr)))

GroupOrders(groups) ==
    {s \in [1 .. Cardinality(groups) -> groups] :
        \A i, j \in DOMAIN s : i # j => s[i] # s[j]}

\* reduce(operate) over the members of a group in ascending index order.
RECURSIVE group_weight(_, _)
group_weight(gr, grp) ==
    LET last == SetMax(grp)
    IN IF grp = {last} THEN gr.nd[last]
       ELSE operate(group_weight(gr, grp \ {last}), gr.nd[last])

\* groups is a sequence of non-empty sets of node indices; group i becomes
\* node i - 1 of a fresh graph.
quoetient_graph(gr, groups) ==
    LET repr_mapping(x) == SetMax({i \in DOMAIN groups : x \in groups[i]})
        new_node(x) == repr_mapping(x) - 1
        eset == {<<new_node(Src(e)), Wt(e), new_node(Dst(e))>> : e \in Edges(gr)}
        new_mapping == [k \in DOMAIN gr.nodes |-> new_node(gr.nodes[k])]
        mapped == {new_mapping[k] : k \in DOMAIN new_mapping}
    IN [nd |-> [i \in 0 .. (Len(groups) - 1) |-> group_weight(gr, groups[i + 1])],
        ed |-> [e \in eset |-> 1],
        free |-> <<>>,
        n |-> Len(groups),
        nodes |-> new_mapping,
        reprs |-> [i \in mapped |-> {k \in DOMAIN new_mapping : new_mapping[k] = i}]]

---------------------------------------------------------------------------
(* Paths.  graph_algos::explore_paths and graph_algos::find_node are used  *)
(* by the source but defined outside the files at hand: explore_paths      *)
(* yields, for every path from the start node that visits no node twice    *)
(* (the empty path included), the path and the node it ends in; find_node  *)
(* follows a sequence of edge weights from a start node.                   *)

\* The copies of the edges: <<edge, copy number>>.
edge_instances(gr) == UNION {{<<e, i>> : i \in 1 .. gr.ed[e]} : e \in Edges(gr)}

RECURSIVE extend_paths(_, _, _)
\* The paths that extend the path pth (ending in node at, having visited seen).
extend_paths(gr, pth, seen) ==
    LET at == IF pth.edges = <<>> THEN pth.start ELSE Dst(pth.edges[Len(pth.edges)][1])
        steps == UNION {{<<e, i>> : i \in 1 .. gr.ed[e]} :
                           e \in {x \in Outgoing(gr, at) : Dst(x) \notin seen}}
    IN {[path |-> pth.edges, node |-> at]} \cup
       UNION {extend_paths(gr, [start |-> pth.start, edges |-> Append(pth.edges, x)],
                           seen \cup {Dst(x[1])}) : x \in steps}

explore_paths(gr, start_node) ==
    extend_paths(gr, [start |-> start_node, edges |-> <<>>], {start_node})

\* The edge weights along a path of edge copies.
path_weights(pth) == [i \in DOMAIN pth |-> Wt(pth[i][1])]

RECURSIVE find_nodes(_, _, _)
\* Every node that following the weights of path from start can end in.
find_nodes(gr, start, path) ==
    IF path = <<>> THEN {start}
    ELSE UNION {find_nodes(gr, Dst(e), Tail(path)) :
                   e \in {x \in Outgoing(gr, start) : Wt(x) = Head(path)}}

\* Some(node) is {node}, None is {}: the edge met first decides in a graph
\* with two equal labels leaving a node; the lowest target stands for it.
find_node(gr, start, path) ==
    LET found == find_nodes(gr, start, path)
    IN IF found = {} THEN {} ELSE {SetMin(found)}

RECURSIVE reach_from(_, _)
reach_from(gr, seen) ==
    LET more == {Dst(e) : e \in {x \in Edges(gr) : Src(x) \in seen}} \ seen
    IN IF more = {} THEN seen ELSE reach_from(gr, seen \cup more)

get_reachable_idxs(gr, idx) == reach_from(gr, {idx})

\* StableGraph::node_bound: one past the highest live index.
node_bound(gr) == IF node_indices(gr) = {} THEN 0 ELSE SetMax(node_indices(gr)) + 1

RECURSIVE descending(_)
descending(S) == IF S = {} THEN <<>> ELSE <<SetMax(S)>> \o descending(S \ {SetMax(S)})

RECURSIVE ascending(_)
ascending(S) == IF S = {} THEN <<>> ELSE <<SetMin(S)>> \o ascending(S \ {SetMin(S)})

get_reachable_subgraph(gr, idx) ==
    LET reachable_idxs == get_reachable_idxs(gr, idx)
        bound == node_bound(gr)
    IN [nd |-> [i \in reachable_idxs |-> gr.nd[i]],
        ed |-> [e \in {x \in Edges(gr) : Src(x) \in reachable_idxs /\ Dst(x) \in reachable_idxs}
                    |-> gr.ed[e]],
        free |-> descending((0 .. (bound - 1)) \ reachable_idxs),
        n |-> bound,
        nodes |-> [k \in {x \in DOMAIN gr.nodes : gr.nodes[x] \in reachable_idxs} |-> gr.nodes[k]],
        reprs |-> [i \in DOMAIN gr.reprs \cap reachable_idxs |-> gr.reprs[i]]]

\* mapping is a function from keys to node indices.
inplace_relable_representative_nodes(gr, mapping) ==
    [gr EXCEPT
       !.nodes = mapping,
       !.reprs = [i \in {mapping[k] : k \in DOMAIN mapping} |->
                     {k \in DOMAIN mapping : mapping[k] = i}]]

relable_representative_nodes(gr, mapping) ==
    inplace_relable_representative_nodes(gr, mapping)

---------------------------------------------------------------------------
(* replace_node.                                                           *)

RECURSIVE remove_nodes_by_idx(_, _)
remove_nodes_by_idx(gr, idxs) ==
    IF idxs = <<>> THEN gr
    ELSE remove_nodes_by_idx(remove_node_by_idx(gr, Head(idxs)), Tail(idxs))

\* The recorded edges into the subgraph reached from idx: the multiset of
\* <<edge weight, source, weights of the path to the edge's target>>, one
\* copy per explored path and copy of the edge.
edges_outside_subgraph(gr, idx) ==
    LET nodes == get_reachable_idxs(gr, idx)
        found == {<<p, x>> \in explore_paths(gr, idx) \X edge_instances(gr) :
                     Dst(x[1]) = p.node /\ Src(x[1]) \notin nodes}
        rec(f) == <<Wt(f[2][1]), Src(f[2][1]), path_weights(f[1].path)>>
        recs == {rec(f) : f \in found}
    IN [r \in recs |-> Cardinality({f \in found : rec(f) = r})]

\* For a key of the subgraph reached from the key's node: the nodes of the
\* replacement found by the paths to the key's node.
label_candidates_on(paths, gr, key, repl, lab) ==
    UNION {find_node(repl, get_node(repl, key), path_weights(p.path)) :
              p \in {q \in paths : q.node = get_node(gr, lab)}}

label_candidates(gr, key, repl, lab) ==
    label_candidates_on(explore_paths(gr, get_node(gr, key)), gr, key, repl, lab)

old_labels_on(paths, gr, key, repl) ==
    LET reachable_idxs == get_reachable_idxs(gr, get_node(gr, key))
    IN {lab \in DOMAIN gr.nodes :
           /\ get_node(gr, lab) \in reachable_idxs
           /\ lab \in get_group_for_node(gr, get_node(gr, lab))
           /\ label_candidates_on(paths, gr, key, repl, lab) # {}}

old_labels(gr, key, repl) ==
    old_labels_on(explore_paths(gr, get_node(gr, key)), gr, key, repl)

RECURSIVE choice_maps(_, _)
\* The maps with domain keys that take every key to a value it is paired
\* with in pairs.
choice_maps(pairs, keys) ==
    IF keys = {} THEN {<<>>}
    ELSE LET k == CHOOSE x \in keys : TRUE
         IN {(k :> y[2]) @@ m : y \in {x \in pairs : x[1] = k},
                                m \in choice_maps(pairs, keys \ {k})}

\* The maps old_label_to_old_idx can be: a key met on several paths keeps
\* the node of the path explored last.
old_label_choices(gr, key, repl) ==
    LET paths == explore_paths(gr, get_node(gr, key))
        labs == old_labels_on(paths, gr, key, repl)
    IN choice_maps(UNION {{<<lab, nd>> : nd \in label_candidates_on(paths, gr, key, repl, lab)} :
                             lab \in labs},
                   labs)

\* The nodes of the replacement in the order they are inserted: each node in
\* ascending order, followed by the targets of its edges.
RECURSIVE insertion_order(_, _, _)
insertion_order(repl, todo, done) ==
    IF todo = <<>> THEN done
    ELSE LET nd == Head(todo)
             seen == {done[i] : i \in DOMAIN done}
             d1 == IF nd \in seen THEN done ELSE Append(done, nd)
             seen1 == seen \cup {nd}
             tgts == ascending({Dst(e) : e \in Outgoing(repl, nd)} \ seen1)
         IN insertion_order(repl, Tail(todo), d1 \o tgts)

RECURSIVE insert_nodes(_, _, _, _)
\* Adds the nodes of order to gr; the result holds the graph and the map
\* from the replacement's indices to the new ones.
insert_nodes(gr, repl, order, mapping) ==
    IF order = <<>> THEN [grph |-> gr, mapping |-> mapping]
    ELSE insert_nodes(grph_add_node(gr, repl.nd[Head(order)]), repl, Tail(order),
                      (Head(order) :> next_index(gr)) @@ mapping)

\* Adds count copies of every edge of the multiset, without looking for an
\* equal edge.
bag_add(ed, more) ==
    [e \in DOMAIN ed \cup DOMAIN more |->
        (IF e \in DOMAIN ed THEN ed[e] ELSE 0) + (IF e \in DOMAIN more THEN more[e] ELSE 0)]

\* The multiset of the images f[x] of the elements x of the multiset.
bag_image(bag, f) ==
    LET img == {f[x] : x \in DOMAIN bag}
        count[S \in SUBSET DOMAIN bag] ==
            IF S = {} THEN 0
            ELSE LET x == CHOOSE y \in S : TRUE IN bag[x] + count[S \ {x}]
    IN [y \in img |-> count[{x \in DOMAIN bag : f[x] = y}]]

\* The replacement's nodes and edges put into gr: the graph and the map
\* old_idx_to_new_idx_mapping from the replacement's indices to the new ones.
insert_subgraph(gr, repl) ==
    LET ins == insert_nodes(gr, repl,
                            insertion_order(repl, ascending(node_indices(repl)), <<>>),
                            EmptyFun)
        internal == [e \in DOMAIN repl.ed |->
                        <<ins.mapping[Src(e)], Wt(e), ins.mapping[Dst(e)]>>]
    IN [grph |-> [ins.grph EXCEPT !.ed = bag_add(@, bag_image(repl.ed, internal))],
        mapping |-> ins.mapping]

new_labeling_old_first(nodes, repl, m, sel) ==
    LET repl_keys == UNION {get_group_for_node(repl, i) : i \in node_indices(repl)}
    IN [k \in DOMAIN nodes \cup repl_keys \cup DOMAIN sel |->
           IF k \in DOMAIN sel THEN m[sel[k]]
           ELSE IF k \in DOMAIN nodes THEN nodes[k]
           ELSE m[CHOOSE i \in node_indices(repl) : k \in get_group_for_node(repl, i)]]

\* new_labeling started from an empty map instead of a clone of self.nodes.
new_labeling_without_clone(nodes, repl, m, sel) ==
    LET repl_keys == UNION {get_group_for_node(repl, i) : i \in node_indices(repl)}
    IN [k \in repl_keys \cup DOMAIN sel |->
           IF k \in repl_keys
           THEN m[CHOOSE i \in node_indices(repl) : k \in get_group_for_node(repl, i)]
           ELSE m[sel[k]]]

\* The key map after the replacement: the keys left in nodes, the keys of the
\* replacement, and the carried keys sel where the key is not yet mapped.
new_labeling(nodes, repl, m, sel) ==
    LET repl_keys == UNION {get_group_for_node(repl, i) : i \in node_indices(repl)}
    IN [k \in DOMAIN nodes \cup repl_keys \cup DOMAIN sel |->
           IF k \in repl_keys
           THEN m[CHOOSE i \in node_indices(repl) : k \in get_group_for_node(repl, i)]
           ELSE IF k \in DOMAIN nodes THEN nodes[k]
           ELSE m[sel[k]]]

reattach_target_root(repl, key, pth) == find_node(repl, get_node(repl, key), <<>>)

\* The node of the replacement a recorded edge is attached to (none: {}).
reattach_target(repl, key, pth) == find_node(repl, get_node(repl, key), pth)

\* replace_node(key, repl) with old_label_to_old_idx = sel.  The source
\* panics unless key is mapped in both graphs and no key of the replacement
\* is mapped outside the replaced subgraph: see replace_node_defined.
replace_node(gr, key, repl, sel) ==
    LET orig_var_idx == get_node(gr, key)
        nodes == get_reachable_idxs(gr, orig_var_idx)
        outside == edges_outside_subgraph(gr, orig_var_idx)
        g1 == remove_nodes_by_idx(gr, ascending(nodes))
        ins == insert_subgraph(g1, repl)
        m == ins.mapping
        g3 == inplace_relable_representative_nodes(ins.grph,
                                                   new_labeling(g1.nodes, repl, m, sel))
        attached == {r \in DOMAIN outside : reattach_target(repl, key, r[3]) # {}}
        attach == [r \in attached |->
                      <<r[2], r[1], m[CHOOSE i \in reattach_target(repl, key, r[3]) : TRUE]>>]
    IN [g3 EXCEPT !.ed = bag_add(@, bag_image([r \in attached |-> outside[r]], attach))]

\* old_idx_to_new_idx_mapping of replace_node(key, repl).
replace_node_mapping(gr, key, repl) ==
    insert_subgraph(remove_nodes_by_idx(gr,
                        ascending(get_reachable_idxs(gr, get_node(gr, key)))), repl).mapping

replace_node_defined(gr, key, repl) ==
    /\ has_node(gr, key)
    /\ has_node(repl, key)
    /\ get_node(repl, key) \in node_indices(repl)
    /\ LET nodes == get_reachable_idxs(gr, get_node(gr, key))
       IN \A i \in node_indices(repl) : \A k \in get_group_for_node(repl, i) :
             has_node(gr, k) => get_node(gr, k) \in nodes

---------------------------------------------------------------------------
(* Properties of graphs.                                                   *)

\* At most one outgoing edge per node and label.
Deterministic(gr) ==
    /\ \A e1, e2 \in Edges(gr) :
          (Src(e1) = Src(e2) /\ Wt(e1) = Wt(e2)) => Dst(e1) = Dst(e2)
    /\ \A e \in Edges(gr) : gr.ed[e] = 1

\* No two edges with equal source, target and weight.
NoDuplicateEdges(gr) == \A e \in Edges(gr) : gr.ed[e] = 1

---------------------------------------------------------------------------
(* Operation sequences on one MappingGraph.                                *)

Keys == {DTV("a", "", <<>>), DTV("b", "", <<>>), DTV("c", "", <<>>)}

Labels == {Load, Store}

Weights == {identity_element}

NumEdges(gr) == Cardinality(Edges(gr))

KeyOrder == <<DTV("a", "", <<>>), DTV("b", "", <<>>), DTV("c", "", <<>>)>>

\* Constraint sets over the keys of gr; a constraint between k1 and k2 is
\* drawn once, with k1 before k2 in KeyOrder (constraint_quotients treats
\* both sides alike).
ConstraintSets(gr) ==
    {cs \in SUBSET {<<KeyOrder[i], KeyOrder[j]>> :
                        i \in 1 .. Len(KeyOrder), j \in 1 .. Len(KeyOrder)} :
        /\ Cardinality(cs) <= MaxCons
        /\ \A c \in cs : /\ has_node(gr, c[1]) /\ has_node(gr, c[2])
                         /\ \E i, j \in 1 .. Len(KeyOrder) :
                               i < j /\ c = <<KeyOrder[i], KeyOrder[j]>>}

Init ==
    /\ g = new
    /\ op = [name |-> "new"]
    /\ skb = [pass |-> "none"]

AddNode ==
    \E key \in Keys, w \in Weights :
        /\ has_node(g, key) \/ Cardinality(node_indices(g)) < MaxNodes
        /\ g' = add_node(g, key, w)
        /\ UNCHANGED skb
        /\ op' = [name |-> "add_node"]

AddEdge ==
    \E a \in node_indices(g), b \in node_indices(g), e \in Labels :
        /\ NumEdges(g) < MaxEdges \/ <<a, e, b>> \in Edges(g)
        /\ g' = add_edge(g, a, b, e)
        /\ UNCHANGED skb
        /\ op' = [name |-> "add_edge", present |-> <<a, e, b>> \in Edges(g)]

MergeNodes ==
    \E key1 \in Keys, key2 \in Keys :
        /\ g' = merge_nodes(g, key1, key2)
        /\ UNCHANGED skb
        /\ op' = [name |-> "merge_nodes",
                  both |-> has_node(g, key1) /\ has_node(g, key2)
                           /\ get_node(g, key1) # get_node(g, key2),
                  det_before |-> Deterministic(g)]

RemoveNode ==
    \E key \in Keys :
        /\ g' = remove_node(g, key)
        /\ UNCHANGED skb
        /\ op' = [name |-> "remove_node"]

RemoveNodeByIdx ==
    \E idx \in 0 .. MaxNodes :
        /\ g' = remove_node_by_idx(g, idx)
        /\ UNCHANGED skb
        /\ op' = [name |-> "remove_node_by_idx"]

\* G.quoetient_graph(generate_quotient_groups(G, C)).
Quotient ==
    /\ node_indices(g) # {}
    /\ \E cons \in ConstraintSets(g) :
         LET groups == generate_quotient_groups(g, cons)
         IN \E order \in GroupOrders(groups) :
              /\ g' = quoetient_graph(g, order)
              /\ UNCHANGED skb
              /\ op' = [name |-> "quoetient_graph",
                        implied |-> groups # generate_quotient_groups_noclosure(g, cons),
                        det_before |-> Deterministic(g)]

Next ==
    \/ AddNode
    \/ AddEdge
    \/ MergeNodes
    \/ RemoveNode
    \/ RemoveNodeByIdx
    \/ Quotient

Spec == Init /\ [][Next]_vars

---------------------------------------------------------------------------
(* replace_node applied to graphs built by add_node and add_edge.  The     *)
(* keys are added in one order (another order renames the indices), the    *)
(* replacement graphs are the graphs ReplGraphs below.                     *)

MaxReplaceEdges == 3
MaxReplEdges == 2
MaxReplNodes == 2

ReplCandidateEdges == (0 .. (MaxReplNodes - 1)) \X Labels \X (0 .. (MaxReplNodes - 1))

EdgeSetsUpTo(C, k) ==
    LET step[i \in 0 .. k] ==
            IF i = 0 THEN {{}}
            ELSE step[i - 1] \cup {E \cup {e} : E \in step[i - 1], e \in C}
    IN step[k]

EdgeSetNodes(E) == {0} \cup {Src(e) : e \in E} \cup {Dst(e) : e \in E}

ReplEdgeSets ==
    {E \in EdgeSetsUpTo(ReplCandidateEdges, MaxReplEdges) :
        /\ EdgeSetNodes(E) = 0 .. (Cardinality(EdgeSetNodes(E)) - 1)
        /\ \A e1, e2 \in E : (Src(e1) = Src(e2) /\ Wt(e1) = Wt(e2)) => Dst(e1) = Dst(e2)}

\* The graph with edges E whose node 0 has the key root; extra maps further
\* keys to nodes.
repl_graph(root, E, extra) ==
    inplace_relable_representative_nodes(
        [nd |-> [i \in EdgeSetNodes(E) |-> identity_element],
         ed |-> [e \in E |-> 1],
         free |-> <<>>,
         n |-> Cardinality(EdgeSetNodes(E)),
         nodes |-> EmptyFun,
         reprs |-> EmptyFun],
        (root :> 0) @@ extra)

\* No further key, or one further key on node 1.
ReplGraphs(root) ==
    {repl_graph(root, E, EmptyFun) : E \in ReplEdgeSets} \cup
    {repl_graph(root, ek[1], (ek[2] :> 1)) :
        ek \in {x \in ReplEdgeSets \X (Keys \ {root}) : 1 \in EdgeSetNodes(x[1])}}

\* The replacement graphs of every key.
ReplGraphsOf == [root \in Keys |-> ReplGraphs(root)]

RAddNode ==
    /\ op.name # "replace_node"
    /\ Cardinality(node_indices(g)) < MaxNodes
    /\ Cardinality(node_indices(g)) < Len(KeyOrder)
    /\ g' = add_node(g, KeyOrder[Cardinality(node_indices(g)) + 1], identity_element)
    /\ UNCHANGED skb
    /\ op' = [name |-> "add_node"]

RAddEdge ==
    /\ op.name # "replace_node"
    /\ \E a \in node_indices(g), b \in node_indices(g), e \in Labels :
        /\ NumEdges(g) < MaxReplaceEdges
        /\ g' = add_edge(g, a, b, e)
        /\ UNCHANGED skb
        /\ op' = [name |-> "add_edge", present |-> <<a, e, b>> \in Edges(g)]

ReplaceNode ==
    /\ op.name # "replace_node"
    /\ \E key \in DOMAIN g.nodes :
         \E repl \in ReplGraphsOf[key] :
            /\ replace_node_defined(g, key, repl)
            /\ \E sel \in old_label_choices(g, key, repl) :
                 /\ g' = replace_node(g, key, repl, sel)
                 /\ UNCHANGED skb
                 /\ op' = [name |-> "replace_node", pre |-> g, key |-> key,
                           repl |-> repl, sel |-> sel]

NextReplace ==
    \/ RAddNode
    \/ RAddEdge
    \/ ReplaceNode

SpecReplace == Init /\ [][NextReplace]_vars

---------------------------------------------------------------------------
(* Every operation of MappingGraph on small graphs.  An operation that     *)
(* panics (an unwrap or expect on a node that is not there) is not taken.  *)

MaxAllNodes == 2
MaxAllEdges == 1

\* The replacement graphs that fit the bounds.
SmallReplGraphsOf ==
    [root \in Keys |-> {r \in ReplGraphs(root) : NumEdges(r) <= MaxAllEdges}]

\* add_node unwraps the weight of the node the key maps to.
add_node_defined(gr, key) ==
    has_node(gr, key) => get_node(gr, key) \in node_indices(gr)

\* merge_nodes unwraps the weights of both nodes when they differ.
merge_nodes_defined(gr, key1, key2) ==
    (has_node(gr, key1) /\ has_node(gr, key2) /\ get_node(gr, key1) # get_node(gr, key2))
        => (get_node(gr, key1) \in node_indices(gr) /\ get_node(gr, key2) \in node_indices(gr))

\* remove_node expects the weight of the node the key maps to.
remove_node_defined(gr, key) ==
    has_node(gr, key) => get_node(gr, key) \in node_indices(gr)

\* quoetient_graph unwraps the group of the node of every key, and
\* constraint_quotients the largest node index.
quoetient_graph_defined(gr) ==
    /\ node_indices(gr) # {}
    /\ \A k \in DOMAIN gr.nodes : get_node(gr, k) \in node_indices(gr)

MAddNode ==
    \E key \in Keys :
        /\ has_node(g, key) \/ Cardinality(node_indices(g)) < MaxAllNodes
        /\ add_node_defined(g, key)
        /\ g' = add_node(g, key, identity_element)
        /\ UNCHANGED skb
        /\ op' = [name |-> "add_node"]

MAddEdge ==
    \E a \in node_indices(g), b \in node_indices(g), e \in Labels :
        /\ NumEdges(g) < MaxAllEdges \/ <<a, e, b>> \in Edges(g)
        /\ g' = add_edge(g, a, b, e)
        /\ UNCHANGED skb
        /\ op' = [name |-> "add_edge"]

MMergeNodes ==
    \E key1 \in Keys, key2 \in Keys :
        /\ merge_nodes_defined(g, key1, key2)
        /\ g' = merge_nodes(g, key1, key2)
        /\ UNCHANGED skb
        /\ op' = [name |-> "merge_nodes"]

MRemoveNode ==
    \E key \in Keys :
        /\ remove_node_defined(g, key)
        /\ g' = remove_node(g, key)
        /\ UNCHANGED skb
        /\ op' = [name |-> "remove_node"]

MRemoveNodeByIdx ==
    \E idx \in 0 .. MaxAllNodes :
        /\ g' = remove_node_by_idx(g, idx)
        /\ UNCHANGED skb
        /\ op' = [name |-> "remove_node_by_idx"]

MQuotient ==
    /\ quoetient_graph_defined(g)
    /\ \E cons \in ConstraintSets(g) :
         \E order \in GroupOrders(generate_quotient_groups(g, cons)) :
            /\ g' = quoetient_graph(g, order)
            /\ UNCHANGED skb
            /\ op' = [name |-> "quoetient_graph"]

MReplaceNode ==
    /\ \A k \in DOMAIN g.nodes : get_node(g, k) \in node_indices(g)
    /\ \E key \in DOMAIN g.nodes :
         \E repl \in SmallReplGraphsOf[key] :
            /\ replace_node_defined(g, key, repl)
            /\ \E sel \in old_label_choices(g, key, repl) :
                 LET replaced == replace_node(g, key, repl, sel)
                 IN /\ Cardinality(node_indices(replaced)) <= MaxAllNodes
                    /\ NumEdges(replaced) <= MaxAllEdges
                    /\ g' = replaced
                    /\ UNCHANGED skb
                    /\ op' = [name |-> "replace_node"]

MGetReachableSubgraph ==
    \E idx \in node_indices(g) :
        /\ g' = get_reachable_subgraph(g, idx)
        /\ UNCHANGED skb
        /\ op' = [name |-> "get_reachable_subgraph"]

\* relable_representative_nodes with the mapping of one key to one index,
\* as binop_sketch calls it.
MRelabel ==
    \E key \in Keys, idx \in 0 .. MaxAllNodes :
        /\ g' = relable_representative_nodes(g, (key :> idx))
        /\ UNCHANGED skb
        /\ op' = [name |-> "relable_representative_nodes",
                  is_node |-> idx \in node_indices(g)]

NextAll ==
    \/ MAddNode
    \/ MAddEdge
    \/ MMergeNodes
    \/ MRemoveNode
    \/ MRemoveNodeByIdx
    \/ MQuotient
    \/ MReplaceNode
    \/ MGetReachableSubgraph
    \/ MRelabel

SpecAll == Init /\ [][NextAll]_vars

---------------------------------------------------------------------------
(* The sketch builder, pass A.  A TypeVariable is a name with a call-site  *)
(* tag ("" for none); a DerivedTypeVar is a TypeVariable with a path of    *)
(* field labels.  A constraint set is the sequence of its subtype          *)
(* constraints <<lhs, rhs>> in iteration order.                            *)

In0 == "in_0"
In1 == "in_1"
Out == "out"

\* Field { offset: 0, size: 8 } and Field { offset: 1, size: 32 }
Field_0_8 == "sigma8@0"
Field_1_32 == "sigma32@1"

TypeVariable(name, cs_tag) == [name |-> name, cs_tag |-> cs_tag]

tid_to_tvar(tid) == TypeVariable(tid, "")

get_base_variable(dtv) == TypeVariable(dtv.base, dtv.tag)

create_with_path(tv, path) == DTV(tv.name, tv.cs_tag, path)

\* TypeVariable::to_callee and DerivedTypeVar::to_callee strip the tag.
to_callee(tv) == TypeVariable(tv.name, "")

dtv_to_callee(dtv) == create_with_path(to_callee(get_base_variable(dtv)), dtv.path)

is_in_parameter(dtv) == Len(dtv.path) = 1 /\ dtv.path[1] \in {In0, In1}

is_out_parameter(dtv) == Len(dtv.path) = 1 /\ dtv.path[1] = Out

type_lattice_elements == {TypeVariable(e, "") : e \in LatticeElems}

Range(s) == {s[i] : i \in DOMAIN s}

RECURSIVE insert_dtv_from(_, _, _, _)
\* The for loop of insert_dtv from the i-th field label on.
insert_dtv_from(gr, dtv, prev, i) ==
    IF i > Len(dtv.path) THEN gr
    ELSE LET curr_var == DTV(dtv.base, dtv.tag, SubSeq(dtv.path, 1, i))
             next == add_node_idx(gr, curr_var)
             g1 == add_node(gr, curr_var, identity_element)
         IN insert_dtv_from(add_edge(g1, prev, next, dtv.path[i]), dtv, next, i + 1)

insert_dtv(gr, dtv) ==
    LET curr_var == DTV(dtv.base, dtv.tag, <<>>)
    IN insert_dtv_from(add_node(gr, curr_var, identity_element), dtv,
                       add_node_idx(gr, curr_var), 1)

tag_base_untagged(from_base, target) == target

tag_base_with_destination_tag(from_base, target) ==
    IF to_callee(get_base_variable(target)) = to_callee(from_base)
    THEN create_with_path(from_base, target.path)
    ELSE target

\* The weight of a node and the key its group lists first.
get_key_and_weight_for_index(sg, idx) ==
    <<CHOOSE k \in get_group_for_node(sg, idx) : TRUE, sg.nd[idx]>>

RECURSIVE merge_members(_, _, _)
merge_members(into, fst, members) ==
    IF members = {} THEN into
    ELSE LET m == CHOOSE x \in members : TRUE
         IN merge_members(merge_nodes(into, fst, m), fst, members \ {m})

add_idx_to(sg, from_base, reached_idx, into) ==
    LET grp == get_group_for_node(sg, reached_idx)
        rand_fst == get_key_and_weight_for_index(sg, reached_idx)[1]
        fst == tag_base_with_destination_tag(from_base, rand_fst)
    IN merge_members(add_node(into, fst, sg.nd[reached_idx]), fst,
                     {tag_base_with_destination_tag(from_base, m) : m \in grp})

RECURSIVE add_idxs_to(_, _, _, _)
add_idxs_to(sg, from_base, idxs, into) ==
    IF idxs = {} THEN into
    ELSE add_idxs_to(sg, from_base, idxs \ {SetMin(idxs)},
                     add_idx_to(sg, from_base, SetMin(idxs), into))

\* The body of the loop over the edges inside the reachable subgraph.
copy_edge(sg, from_base, e, into) ==
    LET kw1 == get_key_and_weight_for_index(sg, Src(e))
        key1 == tag_base_with_destination_tag(from_base, kw1[1])
        source == add_node_idx(into, key1)
        g1 == add_node(into, key1, kw1[2])
        kw2 == get_key_and_weight_for_index(sg, Dst(e))
        key2 == tag_base_with_destination_tag(from_base, kw2[1])
        target == add_node_idx(g1, key2)
    IN add_edge(add_node(g1, key2, kw2[2]), source, target, Wt(e))

RECURSIVE copy_edges(_, _, _, _)
copy_edges(sg, from_base, es, into) ==
    IF es = {} THEN into
    ELSE LET e == CHOOSE x \in es : TRUE
         IN copy_edges(sg, from_base, es \ {e}, copy_edge(sg, from_base, e, into))

copy_reachable_subgraph_into(sg, from, into) ==
    LET representing == dtv_to_callee(from)
    IN IF has_node(sg, representing)
       THEN LET reachable_idxs == get_reachable_idxs(sg, get_node(sg, representing))
                inside == {e \in Edges(sg) : Src(e) \in reachable_idxs
                                              /\ Dst(e) \in reachable_idxs}
            IN copy_edges(sg, get_base_variable(from), inside,
                          add_idxs_to(sg, get_base_variable(from), reachable_idxs, into))
       ELSE into

\* Err of add_variable: an external variable whose callee has no sketch yet.
add_variable_ok(scc_repr, var, is_internal_variable) ==
    \/ get_base_variable(var) \in is_internal_variable
    \/ get_base_variable(var) \in type_lattice_elements
    \/ to_callee(get_base_variable(var)) \in DOMAIN scc_repr

add_variable(scc_repr, var, is_internal_variable, nd_graph) ==
    IF \/ get_base_variable(var) \in is_internal_variable
       \/ get_base_variable(var) \in type_lattice_elements
    THEN insert_dtv(nd_graph, var)
    ELSE copy_reachable_subgraph_into(scc_repr[to_callee(get_base_variable(var))],
                                      var, nd_graph)

RECURSIVE add_nodes_from(_, _, _, _, _)
\* The for loop of add_nodes_and_initial_edges from the i-th constraint on.
add_nodes_from(scc_repr, is_internal_variable, cs_set, i, nd_graph) ==
    IF i > Len(cs_set) THEN nd_graph
    ELSE LET g1 == add_variable(scc_repr, cs_set[i][1], is_internal_variable, nd_graph)
             g2 == add_variable(scc_repr, cs_set[i][2], is_internal_variable, g1)
         IN \* the test has the graph of this round evaluated before the next
            \* round is entered, which keeps the evaluation shallow
            IF g2 = g2
            THEN add_nodes_from(scc_repr, is_internal_variable, cs_set, i + 1, g2)
            ELSE g2

add_nodes_and_initial_edges(scc_repr, representing, cs_set, nd_graph) ==
    add_nodes_from(scc_repr, {tid_to_tvar(t) : t \in Range(representing)},
                   cs_set, 1, nd_graph)

add_nodes_and_initial_edges_ok(scc_repr, representing, cs_set) ==
    \A i \in DOMAIN cs_set : \A j \in 1 .. 2 :
        add_variable_ok(scc_repr, cs_set[i][j],
                        {tid_to_tvar(t) : t \in Range(representing)})

dtv_is_uninterpreted_lattice(dtv) ==
    get_base_variable(dtv) \in type_lattice_elements /\ dtv.path = <<>>

\* operation is "refine_lower" or "refine_upper".
update_lattice_node(grph, lattice_elem, target_dtv, operation) ==
    [grph EXCEPT !.nd[get_node(grph, target_dtv)] =
        IF operation = "refine_lower" THEN refine_lower(@, lattice_elem)
        ELSE refine_upper(@, lattice_elem)]

RECURSIVE label_by_both_sides(_, _, _)
\* label_by with the two tests made one after the other instead of
\* if / else if.
label_by_both_sides(grph, cons, i) ==
    IF i > Len(cons) THEN grph
    ELSE LET lhs == cons[i][1]
             rhs == cons[i][2]
             g1 == IF dtv_is_uninterpreted_lattice(lhs) /\ has_node(grph, rhs)
                   THEN update_lattice_node(grph, lhs.base, rhs, "refine_lower")
                   ELSE grph
             g2 == IF dtv_is_uninterpreted_lattice(rhs) /\ has_node(g1, lhs)
                   THEN update_lattice_node(g1, rhs.base, lhs, "refine_upper")
                   ELSE g1
         IN label_by_both_sides(g2, cons, i + 1)

label_by_independent_tests(grph, cons) == label_by_both_sides(grph, cons, 1)

RECURSIVE label_by_from(_, _, _)
label_by_from(grph, cons, i) ==
    IF i > Len(cons) THEN grph
    ELSE LET lhs == cons[i][1]
             rhs == cons[i][2]
             g1 == IF dtv_is_uninterpreted_lattice(lhs) /\ has_node(grph, rhs)
                   THEN update_lattice_node(grph, lhs.base, rhs, "refine_lower")
                   ELSE IF dtv_is_uninterpreted_lattice(rhs) /\ has_node(grph, lhs)
                   THEN update_lattice_node(grph, rhs.base, lhs, "refine_upper")
                   ELSE grph
         IN label_by_from(g1, cons, i + 1)

label_by(grph, cons) == label_by_from(grph, cons, 1)

\* nd_graph of build_and_label_scc_sketch, before the quotient.
scc_nd_graph(scc_repr, to_reprs, sig) ==
    add_nodes_and_initial_edges(scc_repr, to_reprs, sig, new)

\* The unwraps on the way: constraint_quotients takes the highest node index
\* and looks up both sides of every constraint.
build_and_label_scc_sketch_defined(nd_graph, sig) ==
    /\ node_indices(nd_graph) # {}
    /\ \A i \in DOMAIN sig : has_node(nd_graph, sig[i][1]) /\ has_node(nd_graph, sig[i][2])

scc_quotient_groups(nd_graph, sig) == generate_quotient_groups(nd_graph, Range(sig))

\* The sketch graph the SCC gets from nd_graph; qgroups is the Vec of groups
\* in the order generate_quotient_groups returned them.
build_and_label_scc_sketch(nd_graph, sig, qgroups) ==
    label_by(quoetient_graph(nd_graph, qgroups), sig)

stored_under_every_base(to_reprs, sk_graph) ==
    {to_callee(get_base_variable(k)) : k \in DOMAIN sk_graph.nodes} \ type_lattice_elements

\* The entries of scc_repr that the sketch of an SCC is stored under.
stored_under(to_reprs, sk_graph) == {tid_to_tvar(t) : t \in Range(to_reprs)}

scc_repr_insert(scc_repr, tvars, sk_graph) ==
    [t \in DOMAIN scc_repr \cup tvars |-> IF t \in tvars THEN sk_graph ELSE scc_repr[t]]

---------------------------------------------------------------------------
(* Sketches and the DFA operations on them.  A Sketch is a reachable       *)
(* subgraph with the DerivedTypeVar it represents.  dfa_operations is used *)
(* by the source but defined outside the files at hand: the product has    *)
(* the pairs of states reached from the pair of entries by stepping both   *)
(* sides with the same label, and an edge where both sides have one;       *)
(* intersection and union are this product.  Its states are numbered in    *)
(* the order they are reached, the entry first.                            *)

Sketch(quotient_graph, representing) ==
    [quotient_graph |-> quotient_graph, representing |-> representing]

get_entry(sk) == get_node(sk.quotient_graph, sk.representing)

RECURSIVE SetToSeq(_)
SetToSeq(S) ==
    IF S = {} THEN <<>>
    ELSE LET x == CHOOSE y \in S : TRUE IN <<x>> \o SetToSeq(S \ {x})

\* keys is the set of keys the filter lets through.
get_representations_by_dtv(sg, keys) ==
    LET s == SetToSeq(keys)
    IN [i \in DOMAIN s |-> Sketch(get_reachable_subgraph(sg, get_node(sg, s[i])), s[i])]

get_representing_sketchs_ignoring_callsite_tags(sg, dtv) ==
    get_representations_by_dtv(sg,
        {k \in DOMAIN sg.nodes : dtv_to_callee(k) = dtv_to_callee(dtv)})

get_representing_sketch(sg, dtv) ==
    get_representations_by_dtv(sg, {k \in DOMAIN sg.nodes : k = dtv_to_callee(dtv)})

dfa_edges(sk) == Edges(sk.quotient_graph)

\* The steps of the product from the pair p: <<label, pair>>.
product_steps(a, b, p) ==
    {<<Wt(x[1]), <<Dst(x[1]), Dst(x[2])>>>> :
        x \in {y \in dfa_edges(a) \X dfa_edges(b) :
                  /\ Src(y[1]) = p[1] /\ Src(y[2]) = p[2]
                  /\ Wt(y[1]) = Wt(y[2])}}

RECURSIVE pair_seq(_)
pair_seq(S) ==
    IF S = {} THEN <<>>
    ELSE LET p == CHOOSE x \in S : \A q \in S :
                      x[1] < q[1] \/ (x[1] = q[1] /\ x[2] <= q[2])
         IN <<p>> \o pair_seq(S \ {p})

RECURSIVE product_states(_, _, _, _)
\* The pairs reached, in the order they are reached; i is the next to expand.
product_states(a, b, seq, i) ==
    IF i > Len(seq) THEN seq
    ELSE LET more == {x[2] : x \in product_steps(a, b, seq[i])} \ Range(seq)
         IN product_states(a, b, seq \o pair_seq(more), i + 1)

product(a, b) ==
    LET states == product_states(a, b, <<<<get_entry(a), get_entry(b)>>>>, 1)
        number(p) == (CHOOSE i \in DOMAIN states : states[i] = p) - 1
    IN [entry |-> 0,
        all_indices |-> 0 .. (Len(states) - 1),
        dfa_edges |-> UNION {{<<i - 1, x[1], number(x[2])>> :
                                 x \in product_steps(a, b, states[i])} : i \in DOMAIN states}]

intersection(a, b) == product(a, b)

union(a, b) == product(a, b)

from_dfa_and_labeling(dfa) ==
    [nd |-> dfa.nd, ed |-> dfa.ed, free |-> dfa.free, n |-> dfa.n,
     nodes |-> EmptyFun, reprs |-> EmptyFun]

\* The entry node and the graph: a node per state in ascending order.
create_graph_from_dfa(dfa) ==
    LET mp == [s \in dfa.all_indices |-> Cardinality({t \in dfa.all_indices : t < s})]
    IN [entry |-> mp[dfa.entry],
        grph |-> [nd |-> [i \in 0 .. (Cardinality(dfa.all_indices) - 1) |-> identity_element],
                  ed |-> [e \in {<<mp[Src(x)], Wt(x), mp[Dst(x)]>> : x \in dfa.dfa_edges} |-> 1],
                  free |-> <<>>,
                  n |-> Cardinality(dfa.all_indices)]]

\* For a node a path from the entry ends in, the nodes of self and of other
\* that the path's weights lead to (each {} for None).
find_representative_nodes_for_new_nodes(self, entry_node, new_graph, other) ==
    LET pths == explore_paths(new_graph, entry_node)
    IN [tgt \in {p.node : p \in pths} |->
           LET w == path_weights((CHOOSE p \in pths : p.node = tgt).path)
           IN <<find_node(self.quotient_graph, get_entry(self), w),
                find_node(other.quotient_graph, get_entry(other), w)>>]

\* binop_weight_mapping with the label of other replaced by the identity
\* bound at every node.
binop_weight_mapping_ignoring_other(self, other, lattice_op, resultant_grph) ==
    LET cg == create_graph_from_dfa(resultant_grph)
        reps == find_representative_nodes_for_new_nodes(self, cg.entry, cg.grph, other)
        label(sk, o) == IF o = {} THEN identity_element
                        ELSE sk.quotient_graph.nd[CHOOSE x \in o : TRUE]
        new_label(i) == IF lattice_op = "join"
                        THEN bounds_join(label(self, reps[i][1]), identity_element)
                        ELSE bounds_meet(label(self, reps[i][1]), identity_element)
    IN [from_dfa_and_labeling(cg.grph) EXCEPT
           !.nd = [i \in DOMAIN @ |-> IF i \in DOMAIN reps THEN new_label(i) ELSE @[i]]]

\* weight_mapping of binop_sketch; lattice_op is "join" or "meet".
binop_weight_mapping(self, other, lattice_op, resultant_grph) ==
    LET cg == create_graph_from_dfa(resultant_grph)
        reps == find_representative_nodes_for_new_nodes(self, cg.entry, cg.grph, other)
        label(sk, o) == IF o = {} THEN identity_element
                        ELSE sk.quotient_graph.nd[CHOOSE x \in o : TRUE]
        new_label(i) == IF lattice_op = "join"
                        THEN bounds_join(label(self, reps[i][1]), label(other, reps[i][2]))
                        ELSE bounds_meet(label(self, reps[i][1]), label(other, reps[i][2]))
    IN [from_dfa_and_labeling(cg.grph) EXCEPT
           !.nd = [i \in DOMAIN @ |-> IF i \in DOMAIN reps THEN new_label(i) ELSE @[i]]]

binop_quot_groups(self, other, lattice_op, resultant_grph) ==
    generate_quotient_groups(binop_weight_mapping(self, other, lattice_op, resultant_grph), {})

\* quot_groups is the Vec of groups in the order generate_quotient_groups
\* returned them.
binop_sketch(self, other, lattice_op, resultant_grph, quot_groups) ==
    LET weight_mapping == binop_weight_mapping(self, other, lattice_op, resultant_grph)
        quot_graph == quoetient_graph(weight_mapping, quot_groups)
        entry == create_graph_from_dfa(resultant_grph).entry
    IN Sketch(relable_representative_nodes(quot_graph, (self.representing :> entry)),
              self.representing)

sketch_intersect(self, other, quot_groups) ==
    binop_sketch(self, other, "meet", union(self, other), quot_groups)

sketch_union(self, other, quot_groups) ==
    binop_sketch(self, other, "join", intersection(self, other), quot_groups)

\* The maps label_dtvs can collect: a key of other_sketch goes to a node of
\* self that a path leads to whose weights lead to the key's node in
\* other_sketch (the last pair collected for a key stays).
label_dtvs_mappings(self, other_sketch) ==
    LET pths == explore_paths(self.quotient_graph, get_entry(self))
        pairs == UNION {{<<dtv, p.node>> :
                    dtv \in UNION {get_group_for_node(other_sketch.quotient_graph, o) :
                                o \in find_node(other_sketch.quotient_graph,
                                                get_entry(other_sketch),
                                                path_weights(p.path))}} : p \in pths}
        keys == {x[1] : x \in pairs}
    IN choice_maps(pairs, keys)

label_dtvs(self, mapping) ==
    Sketch(relable_representative_nodes(self.quotient_graph, mapping), self.representing)

replace_dtv(sg, dtv, sketch, sel) == replace_node(sg, dtv, sketch.quotient_graph, sel)

get_built_sketch_from_scc(scc_repr, associated_scc_tids) ==
    scc_repr[tid_to_tvar(associated_scc_tids[1])]

RECURSIVE parent_sketches(_, _, _)
\* The sketches of target_dtv in the parents' sketch graphs, flattened.
parent_sketches(scc_repr, parent_nodes, target_dtv) ==
    IF parent_nodes = <<>> THEN <<>>
    ELSE get_representing_sketchs_ignoring_callsite_tags(
             get_built_sketch_from_scc(scc_repr, Head(parent_nodes)), target_dtv)
         \o parent_sketches(scc_repr, Tail(parent_nodes), target_dtv)

\* merge_operator is "union" (Sketch::union) or "intersect" (Sketch::intersect).
merge_results(merge_operator, lhs, rhs) ==
    IF merge_operator = "union"
    THEN {sketch_union(lhs, rhs, q) :
            q \in GroupOrders(binop_quot_groups(lhs, rhs, "join", intersection(lhs, rhs)))}
    ELSE {sketch_intersect(lhs, rhs, q) :
            q \in GroupOrders(binop_quot_groups(lhs, rhs, "meet", union(lhs, rhs)))}

RECURSIVE reduce_sketches(_, _, _)
\* What reduce can make of the first n sketches.
reduce_sketches(merge_operator, sketches, n) ==
    IF n = 1 THEN {sketches[1]}
    ELSE UNION {merge_results(merge_operator, lhs, sketches[n]) :
                   lhs \in reduce_sketches(merge_operator, sketches, n - 1)}

call_site_types(merge_operator, sketches, orig_repr) ==
    IF sketches = <<>> THEN {orig_repr}
    ELSE reduce_sketches(merge_operator, sketches, Len(sketches))

in_params(orig_repr) ==
    {dtv \in DOMAIN orig_repr.nodes : dtv.tag = "" /\ is_in_parameter(dtv)}

out_params(orig_repr) ==
    {dtv \in DOMAIN orig_repr.nodes : dtv.tag = "" /\ is_out_parameter(dtv)}


---------------------------------------------------------------------------
(* The programs the builder is run on: sub_id (in_0 <= out) is called by   *)
(* the callers, directly (with or without a call-site tag) or through      *)
(* sub_alias, and each caller may constrain its own argument.  order lists *)
(* the SCCs (one function each) callees first, sig gives the constraints   *)
(* of each and parents its callers in the condensed call graph.            *)

MaxCallers == 2

CallerNames == <<"sub_caller1", "sub_caller2", "sub_caller3">>

Callers == SubSeq(CallerNames, 1, MaxCallers)

SubTy(lhs, rhs) == <<lhs, rhs>>

call_constraints(caller, callee, tag) ==
    <<SubTy(DTV(caller, "", <<In0>>), DTV(callee, tag, <<In0>>)),
      SubTy(DTV(callee, tag, <<Out>>), DTV(caller, "", <<Out>>))>>

\* The constraints a caller may place on its own variables.  The first
\* caller dereferences its argument as a char or not at all; the others may
\* also dereference it as an int or pass an int: the programs with the
\* callers exchanged differ from these in the names only.
ExtraConstraints(caller) ==
    {<<>>,
     <<SubTy(DTV(caller, "", <<In0, Load>>), DTV("char", "", <<>>))>>}
        \cup IF caller = Callers[1] THEN {}
             ELSE {<<SubTy(DTV(caller, "", <<In0, Load>>), DTV("int", "", <<>>))>>,
                   <<SubTy(DTV(caller, "", <<In0>>), DTV("int", "", <<>>))>>}

id_constraints == <<SubTy(DTV("sub_id", "", <<In0>>), DTV("sub_id", "", <<Out>>))>>

ExtraChoices == {x \in [Range(Callers) -> UNION {ExtraConstraints(c) : c \in Range(Callers)}] :
                    \A c \in Range(Callers) : x[c] \in ExtraConstraints(c)}

Reverse(s) == [i \in 1 .. Len(s) |-> s[Len(s) + 1 - i]]

\* A program is what SketckGraphBuilder::new is given and what
\* get_topo_order_for_cg makes of it: cg lists the edges <<caller, callee>>
\* of the callgraph, sig maps every Tid to the constraints of its SCC, and
\* sorted is the topological order of the SCCs (each a Vec<Tid>), callers
\* first; cycle_error says that get_topo_order_for_cg returned its error.
callers_first(tids) == Reverse([i \in DOMAIN tids |-> <<tids[i]>>])

direct_program(tag, extras) ==
    [cg |-> [i \in DOMAIN Callers |-> <<Callers[i], "sub_id">>],
     sig |-> [t \in {"sub_id"} \cup Range(Callers) |->
                 IF t = "sub_id" THEN id_constraints
                 ELSE call_constraints(t, "sub_id", tag) \o extras[t]],
     sorted |-> callers_first(<<"sub_id">> \o Callers),
     cycle_error |-> FALSE]

alias_program(extras) ==
    [cg |-> <<<<"sub_alias", "sub_id">>>>
                \o [i \in DOMAIN Callers |-> <<Callers[i], "sub_alias">>],
     sig |-> [t \in {"sub_id", "sub_alias"} \cup Range(Callers) |->
                 IF t = "sub_id" THEN id_constraints
                 ELSE IF t = "sub_alias" THEN call_constraints(t, "sub_id", "0")
                 ELSE call_constraints(t, "sub_alias", "0") \o extras[t]],
     sorted |-> callers_first(<<"sub_id", "sub_alias">> \o Callers),
     cycle_error |-> FALSE]

\* build walks the topological order backwards: callees first.
build_order_callers_first(sorted) == sorted

build_order(sorted) == Reverse(sorted)

\* condensed.neighbors_directed(target_idx, Incoming): the SCC of the caller,
\* once for every callgraph edge into the SCC target_idx.
parent_nodes(prog, target_idx) ==
    LET into == SelectSeq(prog.cg, LAMBDA e : e[2] \in Range(target_idx))
    IN [i \in DOMAIN into |->
           prog.sorted[CHOOSE j \in DOMAIN prog.sorted : into[i][1] \in Range(prog.sorted[j])]]

Programs ==
    {direct_program(tag, x) : tag \in {"", "0"}, x \in ExtraChoices}
        \cup {alias_program(x) : x \in ExtraChoices}

---------------------------------------------------------------------------
(* SketckGraphBuilder::build as a state machine.  skb holds the builder:   *)
(* the program, scc_repr, and where build stands (pass, the position in    *)
(* the order of the pass, the stage of refine_formals and the formals      *)
(* still to refine); g is the graph being worked on.                       *)

InitBuild ==
    /\ g = new
    /\ op = [name |-> "new"]
    /\ skb \in {[pass |-> "A", pos |-> 1, prog |-> p, scc_repr |-> EmptyFun,
                 stage |-> "start", todo |-> <<>>] : p \in Programs}

\* An Err unwrapped where build has the ? operator.
build_err_unwrapped(builder) == [builder EXCEPT !.pass = "panicked"]

\* The ? operator in build: the Err of a callee is returned to the caller
\* of build, the builder is left as it is.
build_err(builder) == [builder EXCEPT !.pass = "error"]

\* self.scc_repr.insert of build for every function of the SCC, and the step
\* to the next SCC or to the second pass.
store_scc_sketch(sk_graph, to_reprs, last) ==
    /\ g' = sk_graph
    /\ skb' = [skb EXCEPT
          !.scc_repr = scc_repr_insert(@, stored_under(to_reprs, sk_graph), sk_graph),
          !.pass = IF last THEN "B" ELSE "A",
          !.pos = IF last THEN 1 ELSE @ + 1]
    /\ op' = [name |-> "build_and_label_scc_sketch", tid |-> to_reprs[1]]

\* build_and_label_scc_sketch from nd_graph on: the panic of an unwrap in
\* constraint_quotients, or the sketch for one order of the groups.
quotient_and_store(nd_graph, to_reprs, sig, last) ==
    IF ~build_and_label_scc_sketch_defined(nd_graph, sig)
    THEN /\ g' = g
         /\ skb' = [skb EXCEPT !.pass = "panicked"]
         /\ op' = [name |-> "build_and_label_scc_sketch", tid |-> to_reprs[1]]
    ELSE \E qgroups \in GroupOrders(scc_quotient_groups(nd_graph, sig)) :
            store_scc_sketch(build_and_label_scc_sketch(nd_graph, sig, qgroups),
                             to_reprs, last)

\* One round of the loop of build: the whole of build_and_label_scc_sketch
\* for the next SCC of sorted reversed.  After the last SCC build goes on
\* to bind_polymorphic_types, which walks sorted as it is.
BuildAndLabelSccSketch ==
    /\ skb.pass = "A" /\ ~skb.prog.cycle_error
    /\ LET to_reprs == build_order(skb.prog.sorted)[skb.pos]
           tid == to_reprs[1]
           sig == skb.prog.sig[tid]
           last == skb.pos = Len(skb.prog.sorted)
       IN IF ~add_nodes_and_initial_edges_ok(skb.scc_repr, to_reprs, sig)
          THEN /\ g' = g
               /\ skb' = build_err(skb)
               /\ op' = [name |-> "build_and_label_scc_sketch", tid |-> tid]
          ELSE quotient_and_store(scc_nd_graph(skb.scc_repr, to_reprs, sig),
                                  to_reprs, sig, last)

\* refine_formal on the graph g for the first formal of skb.todo: every
\* outcome of the hash orders, or the panic of one of its assertions.
\* A variant of refine_formals that works on the stored sketch itself.
scc_repr_refined_in_place(scc_repr, associated_scc_tids, orig_repr) ==
    [scc_repr EXCEPT ![tid_to_tvar(associated_scc_tids[1])] = orig_repr]

\* scc_repr after a step of refine_formals: orig_repr is the clone made by
\* get_built_sketch_from_scc, owned by refine_formals, and the step writes
\* through &mut orig_repr only.
scc_repr_after_refine(scc_repr, associated_scc_tids, orig_repr) == scc_repr

refine_formal(merge_operator, name) ==
    LET target_idx == skb.prog.sorted[skb.pos]
        target_dtv == Head(skb.todo)
        orig_reprs == get_representing_sketch(g, target_dtv)
        sketches == parent_sketches(skb.scc_repr, parent_nodes(skb.prog, target_idx),
                                    target_dtv)
        panic == /\ g' = g
                 /\ skb' = [skb EXCEPT !.pass = "panicked"]
                 /\ op' = [name |-> name, dtv |-> target_dtv, sketches |-> sketches,
                           merged |-> {}]
    IN IF Len(orig_reprs) # 1 THEN panic
       ELSE \E call_site_type \in call_site_types(merge_operator, sketches, orig_reprs[1]) :
            \E mapping \in label_dtvs_mappings(call_site_type, orig_reprs[1]) :
               LET labelled == label_dtvs(call_site_type, mapping)
               IN IF ~replace_node_defined(g, target_dtv, labelled.quotient_graph)
                  THEN panic
                  ELSE \E sel \in old_label_choices(g, target_dtv, labelled.quotient_graph) :
                       /\ g' = replace_dtv(g, target_dtv, labelled, sel)
                       /\ skb' = [skb EXCEPT
                             !.todo = Tail(@),
                             !.scc_repr = scc_repr_after_refine(@, target_idx,
                                              replace_dtv(g, target_dtv, labelled, sel))]
                       /\ op' = [name |-> name, dtv |-> target_dtv, sketches |-> sketches,
                                 merged |-> {call_site_type}]

\* refine_formals up to its first loop: the clone of the SCC's sketch graph
\* and the input formals collected from it.
RefineFormalsBegin ==
    /\ skb.pass = "B" /\ skb.stage = "start"
    /\ LET associated_scc_tids == skb.prog.sorted[skb.pos]
           orig_repr == get_built_sketch_from_scc(skb.scc_repr, associated_scc_tids)
       IN \E todo \in GroupOrders(in_params(orig_repr)) :
          /\ g' = orig_repr
          /\ skb' = [skb EXCEPT !.stage = "in", !.todo = todo]
          /\ op' = [name |-> "refine_formals", tid |-> associated_scc_tids[1]]

RefineFormalIn ==
    /\ skb.pass = "B" /\ skb.stage = "in" /\ skb.todo # <<>>
    /\ refine_formal("union", "refine_formal_in")

\* Between the loops the output formals are collected from the refined clone,
\* in the iteration order of the node mapping.
RefineFormalsOutParams ==
    /\ skb.pass = "B" /\ skb.stage = "in" /\ skb.todo = <<>>
    /\ \E todo \in GroupOrders(out_params(g)) :
          /\ g' = g
          /\ skb' = [skb EXCEPT !.stage = "out", !.todo = todo]
          /\ op' = [name |-> "out_params"]

RefineFormalOut ==
    /\ skb.pass = "B" /\ skb.stage = "out" /\ skb.todo # <<>>
    /\ refine_formal("intersect", "refine_formal_out")

\* refine_formals returns: the refined clone goes out of scope, scc_repr is
\* as it was; after the last SCC build returns.
RefineFormalsEnd ==
    /\ skb.pass = "B" /\ skb.stage = "out" /\ skb.todo = <<>>
    /\ g' = new
    /\ LET last == skb.pos = Len(skb.prog.sorted)
       IN skb' = [skb EXCEPT !.stage = "start",
                             !.pos = IF last THEN @ ELSE @ + 1,
                             !.pass = IF last THEN "done" ELSE "B"]
    /\ op' = [name |-> "refine_formals_end", tid |-> skb.prog.sorted[skb.pos][1]]

NextBuild ==
    \/ BuildAndLabelSccSketch
    \/ RefineFormalsBegin
    \/ RefineFormalIn
    \/ RefineFormalsOutParams
    \/ RefineFormalOut
    \/ RefineFormalsEnd

SpecBuild == InitBuild /\ [][NextBuild]_vars

---------------------------------------------------------------------------
(* build on callgraphs of every shape over three functions: the SCCs and   *)
(* their order are computed from the callgraph as get_topo_order_for_cg    *)
(* does, under every order toposort may return.                            *)

MaxCgEdges == 2

CgTids == <<"sub_a", "sub_b", "sub_c">>

RECURSIVE cg_reachable(_, _)
\* The functions reached from seen along the edges of cg.
cg_reachable(cg, seen) ==
    LET more == {e[2] : e \in {x \in Range(cg) : x[1] \in seen}} \ seen
    IN IF more = {} THEN seen ELSE cg_reachable(cg, seen \cup more)

scc_of(tids, cg, t) ==
    SetToSeq({u \in tids : u \in cg_reachable(cg, {t}) /\ t \in cg_reachable(cg, {u})})

\* petgraph::algo::condensation(cg, false): one node per SCC, weighted with
\* the Tids of the SCC, and one edge for every edge of cg, an edge inside an
\* SCC becoming a loop on its node.
condensation(tids, cg) ==
    [nodes |-> {scc_of(tids, cg, t) : t \in tids},
     edges |-> [i \in DOMAIN cg |-> <<scc_of(tids, cg, cg[i][1]), scc_of(tids, cg, cg[i][2])>>]]

\* petgraph::algo::toposort: an order of the nodes in which every node comes
\* before its successors, or the cycle error; a loop is a cycle.  A
\* condensed graph has no other cycles.  Which of the orders toposort
\* returns is not fixed here: every one is a possible result.
toposort(condensed) ==
    LET n == Cardinality(condensed.nodes)
        orders == {s \in [1 .. n -> condensed.nodes] :
                     /\ \A i, j \in 1 .. n : i # j => s[i] # s[j]
                     /\ \A e \in Range(condensed.edges) :
                           \E i, j \in 1 .. n : i < j /\ s[i] = e[1] /\ s[j] = e[2]}
    IN IF \E e \in Range(condensed.edges) : e[1] = e[2]
       THEN {[cycle_error |-> TRUE, sorted |-> <<>>]}
       ELSE {[cycle_error |-> FALSE, sorted |-> s] : s \in orders}

get_topo_order_for_cg(tids, cg) == toposort(condensation(tids, cg))

RECURSIVE concat_all(_)
concat_all(seqs) == IF seqs = <<>> THEN <<>> ELSE Head(seqs) \o concat_all(Tail(seqs))

\* The constraints of one function: its argument flows to its result, and
\* for every call the argument is passed on and the result taken back.
function_constraints(cg, t) ==
    <<SubTy(DTV(t, "", <<In0>>), DTV(t, "", <<Out>>))>>
        \o concat_all([i \in DOMAIN cg |->
               IF cg[i][1] = t THEN call_constraints(t, cg[i][2], "") ELSE <<>>])

\* The constraints of an SCC, shared by its functions; ext names a function
\* that also calls sub_ext, which is neither in the callgraph nor has
\* constraints of its own.
scc_constraints(cg, scc, ext) ==
    concat_all([i \in DOMAIN scc |->
        function_constraints(cg, scc[i])
            \o (IF scc[i] = ext THEN call_constraints(ext, "sub_ext", "0") ELSE <<>>)])

cg_program(tids, cg, ext, topo) ==
    [cg |-> cg,
     sig |-> [t \in tids |-> scc_constraints(cg, scc_of(tids, cg, t), ext)],
     sorted |-> topo.sorted,
     cycle_error |-> topo.cycle_error]

\* The calls a callgraph is drawn from: from a function to itself or to a
\* later one, and from sub_b back to sub_a.  Up to the names of the
\* functions these give every callgraph with MaxCgEdges edges.
CgEdges ==
    {<<CgTids[i], CgTids[j]>> : <<i, j>> \in {x \in (DOMAIN CgTids) \X (DOMAIN CgTids) :
                                                 x[1] <= x[2]}}
        \cup {<<"sub_b", "sub_a">>}

CallGraphs ==
    {SetToSeq(es) : es \in {x \in SUBSET CgEdges : Cardinality(x) <= MaxCgEdges}}

\* Every callgraph under every result of get_topo_order_for_cg; the smaller
\* callgraphs also with the call of sub_b to sub_ext.
CgPrograms ==
    UNION {{cg_program(Range(CgTids), cg, ext, topo) :
                ext \in IF Len(cg) < MaxCgEdges THEN {"none", "sub_b"} ELSE {"none"},
                topo \in get_topo_order_for_cg(Range(CgTids), cg)} : cg \in CallGraphs}

\* The caller of test_polymorphism_callsites: sub_id is called at site 0
\* with in_0 and at site 1 with in_1, the results go to two fields of out;
\* in_0 is bounded by the lattice element k0 and in_1 by k1.
callsite_constraints(k0, k1) ==
    <<SubTy(DTV("sub_caller", "", <<In0>>), DTV("sub_id", "0", <<In0>>)),
      SubTy(DTV("sub_id", "0", <<Out>>), DTV("sub_caller", "", <<Out, Field_0_8>>)),
      SubTy(DTV("sub_caller", "", <<In1>>), DTV("sub_id", "1", <<In0>>)),
      SubTy(DTV("sub_id", "1", <<Out>>), DTV("sub_caller", "", <<Out, Field_1_32>>)),
      SubTy(DTV("sub_caller", "", <<In0>>), DTV(k0, "", <<>>)),
      SubTy(DTV("sub_caller", "", <<In1>>), DTV(k1, "", <<>>))>>

\* A constraint of the caller that passes its first argument on as its
\* second.
callsite_forced == <<SubTy(DTV("sub_caller", "", <<In0>>), DTV("sub_caller", "", <<In1>>))>>

callsite_program(k0, k1, forced, topo) ==
    [cg |-> <<<<"sub_caller", "sub_id">>>>,
     sig |-> [t \in {"sub_id", "sub_caller"} |->
                 IF t = "sub_id" THEN id_constraints
                 ELSE callsite_constraints(k0, k1) \o forced],
     sorted |-> topo.sorted,
     cycle_error |-> topo.cycle_error]

CallsitePrograms ==
    {callsite_program(k0, k1, forced, topo) :
        k0 \in {"char", "int"}, k1 \in {"char", "int"},
        forced \in {<<>>, callsite_forced},
        topo \in get_topo_order_for_cg({"sub_id", "sub_caller"},
                                       <<<<"sub_caller", "sub_id">>>>)}

InitCallgraphs ==
    /\ g = new
    /\ op = [name |-> "new"]
    /\ skb \in {[pass |-> "A", pos |-> 1, prog |-> p, scc_repr |-> EmptyFun,
                 stage |-> "start", todo |-> <<>>] : p \in CgPrograms \cup CallsitePrograms}

\* build returns the error of get_topo_order_for_cg before its loop.
BuildCycleError ==
    /\ skb.pass = "A" /\ skb.pos = 1
    /\ skb.prog.cycle_error
    /\ g' = g
    /\ skb' = build_err(skb)
    /\ op' = [name |-> "get_topo_order_for_cg"]

NextCallgraphs ==
    \/ BuildCycleError
    \/ BuildAndLabelSccSketch
    \/ RefineFormalsBegin
    \/ RefineFormalIn
    \/ RefineFormalsOutParams
    \/ RefineFormalOut
    \/ RefineFormalsEnd

SpecCallgraphs == InitCallgraphs /\ [][NextCallgraphs]_vars

---------------------------------------------------------------------------
(* What a sketch graph says, whatever indices its nodes have: for every    *)
(* key and every path from the key's node, the weights of the path and the *)
(* bounds of the node it ends in; and which keys share a node.             *)

sketch_view(sg) ==
    [paths |-> UNION {{<<k, path_weights(p.path), sg.nd[p.node]>> :
                          p \in explore_paths(sg, get_node(sg, k))} : k \in DOMAIN sg.nodes},
     same |-> {x \in (DOMAIN sg.nodes) \X (DOMAIN sg.nodes) :
                  get_node(sg, x[1]) = get_node(sg, x[2])}]

\* The field-label paths a sketch accepts from its root.
Language(sk) ==
    {path_weights(p.path) : p \in explore_paths(sk.quotient_graph, get_entry(sk))}

RECURSIVE build_from(_, _, _)
\* scc_repr after the loop of build from the i-th SCC on, for one order of
\* the groups of every quotient; the loop stops where build fails.
build_from(prog, scc_repr, i) ==
    IF i > Len(prog.sorted) THEN scc_repr
    ELSE LET to_reprs == build_order(prog.sorted)[i]
             sig == prog.sig[to_reprs[1]]
             nd_graph == scc_nd_graph(scc_repr, to_reprs, sig)
         IN IF \/ ~add_nodes_and_initial_edges_ok(scc_repr, to_reprs, sig)
               \/ ~build_and_label_scc_sketch_defined(nd_graph, sig)
            THEN scc_repr
            ELSE LET qgroups == CHOOSE q \in GroupOrders(
                                    scc_quotient_groups(nd_graph, sig)) : TRUE
                     sk_graph == build_and_label_scc_sketch(nd_graph, sig, qgroups)
                 IN build_from(prog,
                        scc_repr_insert(scc_repr, stored_under(to_reprs, sk_graph), sk_graph),
                        i + 1)

stored_view(scc_repr, tid) ==
    IF tid_to_tvar(tid) \in DOMAIN scc_repr
    THEN sketch_view(scc_repr[tid_to_tvar(tid)])
    ELSE [paths |-> {}, same |-> {}]

\* For every program, what build stores for each of its functions.
StoredViews ==
    [p \in Programs |->
        LET scc_repr == build_from(p, EmptyFun, 1)
        IN [tid \in DOMAIN p.sig |-> stored_view(scc_repr, tid)]]

\* The program with the caller's own constraints exchanged for extra.
with_extras(prog, caller, extra) ==
    [prog EXCEPT !.sig[caller] = SubSeq(@, 1, 2) \o extra]

\* The Load edges leaving the node of a key.
load_edges(sg, key) == {e \in Outgoing(sg, get_node(sg, key)) : Wt(e) = Load}

RECURSIVE joined_bounds(_, _)
\* join over the bounds of the Load targets of the first n sketches.
joined_bounds(sketches, n) ==
    LET sk == sketches[n]
        e == CHOOSE x \in load_edges(sk.quotient_graph, sk.representing) : TRUE
        b == sk.quotient_graph.nd[Dst(e)]
    IN IF n = 1 THEN b ELSE bounds_join(joined_bounds(sketches, n - 1), b)
---------------------------------------------------------------------------
(* C1: in the graph G.quoetient_graph(generate_quotient_groups(G, C))      *)
(* every node has at most one outgoing edge per FieldLabel.                *)
C1_QuotientDeterministic ==
    op.name = "quoetient_graph" => Deterministic(g)

\* A quotient in which the edge implications merged nodes that the
\* constraints alone left apart, from a graph that was not deterministic.
C1_Witness ==
    /\ op.name = "quoetient_graph"
    /\ op.implied
    /\ ~op.det_before
    /\ Edges(g) # {}

(* C2: merge_nodes on a graph with at most one outgoing edge per node and  *)
(* FieldLabel leaves a graph with at most one outgoing edge per node and   *)
(* FieldLabel.                                                             *)
C2_MergeKeepsDeterministic ==
    (op.name = "merge_nodes" /\ op.det_before) => Deterministic(g)

(* C4: no two distinct edges have the same source, target and weight, in   *)
(* every state reached by add_node, add_edge, merge_nodes, remove_node,    *)
(* remove_node_by_idx and quoetient_graph.                                 *)
C4_NoDuplicateEdges == NoDuplicateEdges(g)

\* add_edge was called for an edge that was already there, and a merge of
\* two nodes copied edges.
C4_Witness ==
    \/ (op.name = "add_edge" /\ op.present)
    \/ (op.name = "merge_nodes" /\ op.both /\ Edges(g) # {})

(* C5: replace_node keeps the graph free of duplicate edges: when neither  *)
(* the target graph nor the replacement has two edges with equal source,   *)
(* target and weight, the graph after replace_node has none either.        *)
C5_ReplaceKeepsNoDuplicates ==
    (/\ op.name = "replace_node"
     /\ NoDuplicateEdges(op.pre)
     /\ NoDuplicateEdges(op.repl)) => NoDuplicateEdges(g)

---------------------------------------------------------------------------
(* What a replace_node step is measured against: the graph before, the     *)
(* replaced region, the edges that entered it and the label paths.         *)

ReplacedRegion == get_reachable_idxs(op.pre, get_node(op.pre, op.key))

EnteringEdges == {e \in Edges(op.pre) : Src(e) \notin ReplacedRegion /\ Dst(e) \in ReplacedRegion}

LabelPaths(tgt) ==
    {path_weights(p.path) :
        p \in {q \in explore_paths(op.pre, get_node(op.pre, op.key)) : q.node = tgt}}

\* The nodes of the replacement at the label paths that lead to tgt.
ReplacementNodesFor(tgt) ==
    UNION {find_node(op.repl, get_node(op.repl, op.key), p) : p \in LabelPaths(tgt)}

InsertedCopy == replace_node_mapping(op.pre, op.key, op.repl)

InsertedNodes == {InsertedCopy[i] : i \in DOMAIN InsertedCopy}

RegionKeys == {k \in DOMAIN op.pre.nodes : get_node(op.pre, k) \in ReplacedRegion}

ReplacementKeys == UNION {get_group_for_node(op.repl, i) : i \in node_indices(op.repl)}

(* C6: replace_node re-attaches the edges that entered the replaced region *)
(* by path: for an edge (src, w, tgt) with src outside the region and a    *)
(* label path p from the key's node to tgt, the graph afterwards has the   *)
(* edge (src, w, copy of the replacement's node at p) when the replacement *)
(* has a node at p, and no edge from outside into the inserted nodes is    *)
(* there for another reason.                                               *)
C6_ReattachByPath ==
    op.name = "replace_node" =>
        LET entering == EnteringEdges
            copy == InsertedCopy
            inserted == {copy[i] : i \in DOMAIN copy}
            reattached ==
                UNION {{<<Src(e), Wt(e), copy[n]>> : n \in ReplacementNodesFor(Dst(e))} :
                          e \in entering}
        IN /\ reattached \subseteq Edges(g)
           /\ \A e \in Edges(g) :
                 (Src(e) \notin inserted /\ Dst(e) \in inserted) => e \in reattached

\* One entering edge was re-attached below the root of the replacement and
\* another one at the root itself.
C6_Witness ==
    /\ op.name = "replace_node"
    /\ \E e \in EnteringEdges :
          \E n \in ReplacementNodesFor(Dst(e)) : n # get_node(op.repl, op.key)
    /\ \E e \in EnteringEdges : Dst(e) = get_node(op.pre, op.key)

(* C7 as stated: every key of the replaced region at label path p maps,    *)
(* after replace_node, to the copy of the replacement's node at p when     *)
(* there is one and is absent from the key map when there is none; the key *)
(* passed to replace_node is still mapped.                                 *)
C7_KeysCarriedByPath ==
    op.name = "replace_node" =>
        /\ has_node(g, op.key)
        /\ LET copy == InsertedCopy
           IN \A k \in RegionKeys :
              LET found == ReplacementNodesFor(get_node(op.pre, k))
              IN IF found # {}
                 THEN has_node(g, k) /\ get_node(g, k) \in {copy[n] : n \in found}
                 ELSE ~has_node(g, k)

(* C7 amended: a key of the replaced region that the replacement graph     *)
(* itself maps goes to the copy of the node the replacement gives it; any  *)
(* other key of the region goes to the copy of the replacement's node at a *)
(* label path of the key's node when there is one and is absent when there *)
(* is none; the key passed to replace_node is still mapped.                *)
C7_KeysCarriedUnlessReplacementMapsThem ==
    op.name = "replace_node" =>
        /\ has_node(g, op.key)
        /\ LET copy == InsertedCopy
           IN \A k \in RegionKeys :
              LET found == ReplacementNodesFor(get_node(op.pre, k))
              IN IF k \in ReplacementKeys
                 THEN has_node(g, k) /\ get_node(g, k) = copy[get_node(op.repl, k)]
                 ELSE IF found # {}
                 THEN has_node(g, k) /\ get_node(g, k) \in {copy[n] : n \in found}
                 ELSE ~has_node(g, k)

\* A key was carried over by its path, and the replacement maps another key
\* of the region to a node that is not at that key's path.
C7_Witness ==
    /\ op.name = "replace_node"
    /\ \E k \in RegionKeys \ ReplacementKeys :
          /\ ReplacementNodesFor(get_node(op.pre, k)) # {}
          /\ has_node(g, k)
    /\ \E k \in RegionKeys \cap ReplacementKeys :
          get_node(op.repl, k) \notin ReplacementNodesFor(get_node(op.pre, k))

---------------------------------------------------------------------------
\* Key k maps to node n exactly when k is in the key set recorded for n.
KeyMapsAreInverses(gr) ==
    /\ \A k \in DOMAIN gr.nodes : k \in get_group_for_node(gr, gr.nodes[k])
    /\ \A n \in DOMAIN gr.reprs : \A k \in gr.reprs[n] : has_node(gr, k) /\ gr.nodes[k] = n

\* Every node a key maps to is a node of the underlying graph.
KeysNameNodes(gr) == \A k \in DOMAIN gr.nodes : gr.nodes[k] \in node_indices(gr)

(* C3: in every state reached by add_node, add_edge, merge_nodes,          *)
(* remove_node, remove_node_by_idx, replace_node, quoetient_graph,         *)
(* get_reachable_subgraph and relable_representative_nodes the key map and *)
(* the key sets of the nodes are inverses of each other, and every node a  *)
(* key maps to is a node of the underlying graph.                          *)
C3_KeyMapsConsistent == KeyMapsAreInverses(g) /\ KeysNameNodes(g)

(* C8: in Pass B, a formal refined from k >= 1 caller-side sketches gets a *)
(* merged sketch that accepts, from its root, exactly the union of the     *)
(* callers' path sets when it is an input formal (refine_formal_in) and    *)
(* exactly their intersection when it is an output formal                  *)
(* (refine_formal_out).                                                    *)
C8_MergedLanguage ==
    (/\ op.name \in {"refine_formal_in", "refine_formal_out"}
     /\ op.merged # {}
     /\ Len(op.sketches) >= 1) =>
        LET langs == {Language(op.sketches[i]) : i \in DOMAIN op.sketches}
            merged == Language(CHOOSE sk \in op.merged : TRUE)
        IN IF op.name = "refine_formal_in"
           THEN merged = UNION langs
           ELSE merged = {w \in UNION langs : \A l \in langs : w \in l}

(* C9: after build has returned, the sketch stored in scc_repr for a       *)
(* callee f shows the refinement of pass B: if every caller's view of      *)
(* f.in_0 has an outgoing Load edge, then in the stored sketch of f the    *)
(* node of f.in_0 has exactly one outgoing Load edge, and its target       *)
(* carries the join of the bounds of the callers' Load targets.            *)
C9_StoredCalleeIsRefined ==
    skb.pass = "done" =>
        \A f \in DOMAIN skb.prog.sig :
            LET formal == DTV(f, "", <<In0>>)
                views == parent_sketches(skb.scc_repr, parent_nodes(skb.prog, <<f>>), formal)
                stored == get_built_sketch_from_scc(skb.scc_repr, <<f>>)
            IN (/\ views # <<>>
                /\ \A i \in DOMAIN views :
                      load_edges(views[i].quotient_graph, views[i].representing) # {})
               => /\ Cardinality(load_edges(stored, formal)) = 1
                  /\ \A e \in load_edges(stored, formal) :
                        /\ stored.ed[e] = 1
                        /\ stored.nd[Dst(e)] = joined_bounds(views, Len(views))

(* C10: callers of a common callee are not unified: after build has        *)
(* returned, the sketch stored for a caller is the one build stores for it *)
(* whatever constraints any other caller places on its own variables.      *)
C10_CallersNotUnified ==
    skb.pass = "done" =>
        \A c1, c2 \in Range(Callers) :
            c1 # c2 =>
                \A extra \in ExtraConstraints(c1) :
                    stored_view(skb.scc_repr, c2)
                        = StoredViews[with_extras(skb.prog, c1, extra)][c2]

\* build has returned for a program whose first caller loads a char through
\* its argument and whose second caller passes an int: the first caller's
\* sketch has the Load edge to a node bounded by char, the second caller's
\* argument is bounded by int and has no outgoing edge.
C10_Witness ==
    /\ skb.pass = "done"
    /\ MaxCallers >= 2
    /\ LET c1 == Callers[1]
           c2 == Callers[2]
           s1 == get_built_sketch_from_scc(skb.scc_repr, <<c1>>)
           s2 == get_built_sketch_from_scc(skb.scc_repr, <<c2>>)
           in1 == DTV(c1, "", <<In0>>)
           in2 == DTV(c2, "", <<In0>>)
       IN /\ "sub_alias" \in DOMAIN skb.prog.sig
          /\ \E e \in load_edges(s1, in1) : s1.nd[Dst(e)].upper_bound = "char"
          /\ s1.nd[get_node(s1, in1)].upper_bound = "top"
          /\ Outgoing(s2, get_node(s2, in2)) = {}
          /\ s2.nd[get_node(s2, in2)].upper_bound = "int"


(* C16: Load and Store are equivalent for edge implication in both orders: *)
(* in the partition generate_quotient_groups returns, a Load edge and a    *)
(* Store edge with sources in one class have their targets in one class,   *)
(* and in the quotient graph a node reaches at most one node by its Load   *)
(* and Store edges.                                                        *)
same_group(groups, a, b) == \E grp \in groups : a \in grp /\ b \in grp

load_store_closed(gr, groups) ==
    \A e1, e2 \in Edges(gr) :
        (/\ {Wt(e1), Wt(e2)} = {Load, Store}
         /\ same_group(groups, Src(e1), Src(e2)))
            => same_group(groups, Dst(e1), Dst(e2))

memory_cells(gr, n) == {Dst(e) : e \in {x \in Outgoing(gr, n) : Wt(x) \in {Load, Store}}}

C16_LoadStoreEquivalent ==
    [][op'.name = "quoetient_graph" =>
          /\ \A cons \in ConstraintSets(g) :
                load_store_closed(g, generate_quotient_groups(g, cons))
          /\ \A n \in node_indices(g') : Cardinality(memory_cells(g', n)) <= 1]_vars

\* A quotient whose edge implications merged the targets of a Load and a
\* Store edge: a node of the result has both edges, to one node.
C16_Witness ==
    /\ op.name = "quoetient_graph"
    /\ op.implied
    /\ \E n \in node_indices(g) :
          {Wt(e) : e \in Outgoing(g, n)} = {Load, Store}


(* C12: Pass A visits the SCCs of the condensed callgraph in reverse       *)
(* topological order: when build_and_label_scc_sketch is about to start    *)
(* for an SCC, scc_repr holds a sketch for every Tid of every SCC the SCC  *)
(* has a callgraph edge to, and holds no sketch for a Tid of the SCC       *)
(* itself, so no SCC is built twice.                                       *)
callee_sccs(prog, scc) ==
    {prog.sorted[j] : j \in {k \in DOMAIN prog.sorted :
        \E e \in Range(prog.cg) : e[1] \in Range(scc) /\ e[2] \in Range(prog.sorted[k])}}

C12_CalleesBuiltFirst ==
    (skb.pass = "A" /\ ~skb.prog.cycle_error) =>
        LET scc == build_order(skb.prog.sorted)[skb.pos]
        IN /\ \A callee \in callee_sccs(skb.prog, scc) :
                 \A t \in Range(callee) : tid_to_tvar(t) \in DOMAIN skb.scc_repr
           /\ \A t \in Range(scc) : tid_to_tvar(t) \notin DOMAIN skb.scc_repr
           /\ \A i, j \in DOMAIN skb.prog.sorted :
                 i # j => Range(skb.prog.sorted[i]) \cap Range(skb.prog.sorted[j]) = {}

\* build_and_label_scc_sketch is about to start for the last SCC of a chain
\* of calls sub_a -> sub_b -> sub_c: the sketches of its callee and of its
\* callee's callee are stored.
C12_Witness ==
    /\ skb.pass = "A" /\ ~skb.prog.cycle_error
    /\ skb.pos = 3
    /\ Len(skb.prog.cg) = 2
    /\ LET scc == build_order(skb.prog.sorted)[skb.pos]
       IN /\ callee_sccs(skb.prog, scc) # {}
          /\ \E callee \in callee_sccs(skb.prog, scc) : callee_sccs(skb.prog, callee) # {}


(* C14: when, during Pass A, a constraint of the current SCC mentions a    *)
(* base variable that is neither internal to the SCC nor a lattice element *)
(* and whose callee (tag stripped) has no sketch in scc_repr, build        *)
(* returns an error instead of panicking, and scc_repr is left as it was.  *)
missing_external(scc_repr, to_reprs, sig) ==
    \E i \in DOMAIN sig : \E j \in 1 .. 2 :
        LET base == get_base_variable(sig[i][j])
        IN /\ base \notin {tid_to_tvar(t) : t \in Range(to_reprs)}
           /\ base \notin type_lattice_elements
           /\ to_callee(base) \notin DOMAIN scc_repr

C14_MissingCalleeIsAnError ==
    [][(/\ skb.pass = "A" /\ ~skb.prog.cycle_error
        /\ LET to_reprs == build_order(skb.prog.sorted)[skb.pos]
           IN missing_external(skb.scc_repr, to_reprs, skb.prog.sig[to_reprs[1]]))
       => (/\ skb'.pass = "error"
           /\ skb'.scc_repr = skb.scc_repr)]_vars

\* build has returned the error for an SCC that calls sub_ext, after the
\* sketch of another function was stored.
C14_Witness ==
    /\ skb.pass = "error"
    /\ op.name = "build_and_label_scc_sketch"
    /\ DOMAIN skb.scc_repr # {}
    /\ \E i \in DOMAIN skb.prog.sig[op.tid] : \E j \in 1 .. 2 :
          skb.prog.sig[op.tid][i][j].base = "sub_ext"


(* C11: call sites are polymorphic. When sub_caller refers to sub_id under *)
(* the tags 0 and 1, its stored sketch holds one copy of sub_id's sketch   *)
(* per tag, keyed by the tagged variables and never by the untagged ones;  *)
(* each copy keeps the shape of the callee (in_0 and out share a node);    *)
(* the two copies share a node only if the caller's own constraints        *)
(* connect them (the same lattice bound on both arguments, or in_0 passed  *)
(* on as in_1); otherwise sub_caller.out has exactly the two field edges,  *)
(* the first to a node bounded above by the bound of in_0 and the second   *)
(* to a node bounded above by the bound of in_1.  Building these programs  *)
(* never panics.                                                           *)
is_callsite_program(prog) ==
    /\ "sub_caller" \in DOMAIN prog.sig
    /\ Len(prog.sig["sub_caller"]) >= 6

callsite_key(tag, label) == DTV("sub_id", tag, <<label>>)

C11_CallsitesPolymorphic ==
    is_callsite_program(skb.prog) =>
        /\ skb.pass # "panicked"
        /\ tid_to_tvar("sub_caller") \in DOMAIN skb.scc_repr =>
             LET sg == skb.scc_repr[tid_to_tvar("sub_caller")]
                 sig == skb.prog.sig["sub_caller"]
                 k0 == sig[5][2].base
                 k1 == sig[6][2].base
                 connected == k0 = k1 \/ Len(sig) > 6
                 out == DTV("sub_caller", "", <<Out>>)
             IN /\ \A tag \in {"0", "1"} : \A label \in {In0, Out} :
                       has_node(sg, callsite_key(tag, label))
                /\ \A key \in DOMAIN sg.nodes : ~(key.base = "sub_id" /\ key.tag = "")
                /\ \A tag \in {"0", "1"} :
                       get_node(sg, callsite_key(tag, In0)) = get_node(sg, callsite_key(tag, Out))
                /\ (get_node(sg, callsite_key("0", In0)) = get_node(sg, callsite_key("1", In0)))
                       <=> connected
                /\ ~connected =>
                       /\ has_node(sg, out)
                       /\ {Wt(e) : e \in Outgoing(sg, get_node(sg, out))} = {Field_0_8, Field_1_32}
                       /\ Cardinality(Outgoing(sg, get_node(sg, out))) = 2
                       /\ \A e \in Outgoing(sg, get_node(sg, out)) :
                              /\ Wt(e) = Field_0_8 => sg.nd[Dst(e)].upper_bound = k0
                              /\ Wt(e) = Field_1_32 => sg.nd[Dst(e)].upper_bound = k1
                              /\ Wt(e) = Field_0_8 => Dst(e) = get_node(sg, callsite_key("0", Out))
                              /\ Wt(e) = Field_1_32 => Dst(e) = get_node(sg, callsite_key("1", Out))

\* The sketch of sub_caller is stored for the program of
\* test_polymorphism_callsites: in_0 bounded by char, in_1 by int, and no
\* constraint between the two arguments.
C11_Witness ==
    /\ is_callsite_program(skb.prog)
    /\ tid_to_tvar("sub_caller") \in DOMAIN skb.scc_repr
    /\ Len(skb.prog.sig["sub_caller"]) = 6
    /\ skb.prog.sig["sub_caller"][5][2].base = "char"
    /\ skb.prog.sig["sub_caller"][6][2].base = "int"
    /\ skb.pass = "done"


(* C13: Pass B never changes a sketch that Pass A stored. Every step of    *)
(* bind_polymorphic_types (the start of refine_formals for an SCC, each    *)
(* refinement of an input or output formal, the end of refine_formals)     *)
(* leaves scc_repr, the map from type variables to the shared sketches, as *)
(* it was: the nodes, edges, bounds and key mapping of every stored sketch *)
(* are those of the end of Pass A; the refinement changes the clone only.  *)
C13_StoredSketchesFrozen ==
    [][skb.pass = "B" => skb'.scc_repr = skb.scc_repr]_vars

\* A refinement step of Pass B has just changed the clone: it differs from
\* the stored sketch of the SCC it was cloned from.
C13_Witness ==
    /\ skb.pass = "B"
    /\ op.name \in {"refine_formal_in", "refine_formal_out"}
    /\ g # get_built_sketch_from_scc(skb.scc_repr, skb.prog.sorted[skb.pos])


(* C17: lattice labels are monotone during Pass B. At every refinement     *)
(* step of refine_formals (of an input or of an output formal), for every  *)
(* input formal of the sketch being refined and every node of that         *)
(* formal's sketch, identified by its path from the formal's node, the     *)
(* lower bound after the step is equal or higher and the upper bound is    *)
(* equal or lower than before the step.                                    *)
formal_bounds(gr, dtv) ==
    IF has_node(gr, dtv)
    THEN {<<path_weights(p.path), gr.nd[p.node]>> :
             p \in explore_paths(gr, get_node(gr, dtv))}
    ELSE {}

bounds_monotone(before, after) ==
    \A b \in before : \A a \in after :
        a[1] = b[1] => /\ Leq(b[2].lower_bound, a[2].lower_bound)
                       /\ Leq(a[2].upper_bound, b[2].upper_bound)

C17_BoundsMonotone ==
    [][(/\ op'.name \in {"refine_formal_in", "refine_formal_out"}
        /\ skb'.pass # "panicked")
          => \A dtv \in in_params(g) :
                 bounds_monotone(formal_bounds(g, dtv), formal_bounds(g', dtv))]_vars


(* C18: the sketch builder is deterministic. For the same callgraph,       *)
(* constraint sets, lattice and topological order, every run of build()    *)
(* stores for every Tid a sketch with the same keys, the same paths from   *)
(* every key, the same bounds on the nodes reached and the same pairs of   *)
(* keys sharing a node, and every run of refine_formals leaves the         *)
(* refined sketch of an SCC with the same keys, paths, bounds and shared   *)
(* nodes, whatever the iteration order of the quotient groups, of the node *)
(* mappings and of the formals to refine. The sketches of a run are        *)
(* compared with the ones of the run that takes the first order at every   *)
(* choice.                                                                 *)
refine_formal_once(gr, scc_repr, prog, target_idx, target_dtv, merge_operator) ==
    LET orig_reprs == get_representing_sketch(gr, target_dtv)
        sketches == parent_sketches(scc_repr, parent_nodes(prog, target_idx), target_dtv)
    IN IF Len(orig_reprs) # 1 THEN gr
       ELSE LET call_site_type == CHOOSE c \in call_site_types(merge_operator, sketches,
                                                               orig_reprs[1]) : TRUE
                mapping == CHOOSE m \in label_dtvs_mappings(call_site_type, orig_reprs[1]) : TRUE
                labelled == label_dtvs(call_site_type, mapping)
            IN IF ~replace_node_defined(gr, target_dtv, labelled.quotient_graph) THEN gr
               ELSE replace_dtv(gr, target_dtv, labelled,
                        CHOOSE sel \in old_label_choices(gr, target_dtv,
                                                        labelled.quotient_graph) : TRUE)

RECURSIVE refine_formals_over(_, _, _, _, _, _)
refine_formals_over(gr, scc_repr, prog, target_idx, todo, merge_operator) ==
    IF todo = <<>> THEN gr
    ELSE refine_formals_over(
             refine_formal_once(gr, scc_repr, prog, target_idx, Head(todo), merge_operator),
             scc_repr, prog, target_idx, Tail(todo), merge_operator)

refine_formals_once(scc_repr, prog, target_idx) ==
    LET orig_repr == get_built_sketch_from_scc(scc_repr, target_idx)
        after_in == refine_formals_over(orig_repr, scc_repr, prog, target_idx,
                                        SetToSeq(in_params(orig_repr)), "union")
    IN refine_formals_over(after_in, scc_repr, prog, target_idx,
                           SetToSeq(out_params(after_in)), "intersect")

---------------------------------------------------------------------------
(* The constraint generator (constraint_generation/mod.rs). Type variable  *)
(* names are strings, built by concatenation as the code builds them.      *)

In(ind) == "in_" \o ToString(ind)

OutAt(ind) == IF ind = 0 THEN Out ELSE "out_" \o ToString(ind)

\* as_bit_length of a ByteSize.
as_bit_length(sz) == 8 * sz

Field(offset, size) == "sigma" \o ToString(size) \o "@" \o ToString(offset)

DerivedTypeVar_new(tv) == create_with_path(tv, <<>>)

add_field_label(der_var, label) == [der_var EXCEPT !.path = Append(@, label)]

tid_indexed_by_variable(tid, var) == TypeVariable(tid \o "_" \o var.name, "")

term_to_tvar(term) == tid_to_tvar(term.tid)

arg_tvar(index, target_sub) ==
    TypeVariable("arg_" \o target_sub \o "_" \o ToString(index), "")

\* VariableManager::fresh: the name carries the counter, which is advanced
\* by the caller.
fresh(vman) == TypeVariable("fresh_" \o ToString(vman), "")

\* RegisterContext::access: the definition that reaches the register, a
\* fresh representative above all of them when there are several (or none),
\* a fresh variable when the register is not in the mapping.
access(reg_map, var, vman) ==
    IF var.name \in DOMAIN reg_map
    THEN LET ts == reg_map[var.name]
         IN IF Cardinality(ts) = 1
            THEN [tv |-> tid_indexed_by_variable(CHOOSE t \in ts : TRUE, var),
                  cs |-> {}, vman |-> vman]
            ELSE [tv |-> fresh(vman),
                  cs |-> {SubTy(DerivedTypeVar_new(tid_indexed_by_variable(tid, var)),
                                DerivedTypeVar_new(fresh(vman))) : tid \in ts},
                  vman |-> vman + 1]
    ELSE [tv |-> fresh(vman), cs |-> {}, vman |-> vman + 1]

evaluate_expression(nd_cont, value, vman) ==
    IF value.kind = "Var"
    THEN access(nd_cont.reg_map, value.var, vman)
    ELSE [tv |-> fresh(vman), cs |-> {}, vman |-> vman + 1]

generate_expression_constraint(nd_cont, lhs_type_var, value, vman) ==
    LET rhs == evaluate_expression(nd_cont, value, vman)
    IN [cs |-> rhs.cs \cup {SubTy(DerivedTypeVar_new(rhs.tv), DerivedTypeVar_new(lhs_type_var))},
        vman |-> rhs.vman]

apply_assign(nd_cont, tid, var, value, vman) ==
    generate_expression_constraint(nd_cont, tid_indexed_by_variable(tid, var), value, vman)

\* A variant that never appends the Field label.
make_mem_tvar_whole_cell(var, label) ==
    add_field_label(DerivedTypeVar_new(var.ty_var), label)

\* var.offset is <<>> for None and <<off>> for Some(off).
make_mem_tvar(var, label) ==
    LET der_var == add_field_label(DerivedTypeVar_new(var.ty_var), label)
    IN IF var.offset # <<>>
       THEN add_field_label(der_var, Field(var.offset[1], as_bit_length(var.sz)))
       ELSE der_var

make_loaded_tvar(var) == make_mem_tvar(var, Load)

make_store_tvar(var) == make_mem_tvar(var, Store)

\* Memop::apply_mem_op; all_tvars is what points_to returns for the address
\* and the size of the access, label stands for make_type_var.
apply_mem_op(memop, all_tvars, label, memop_is_upcasted) ==
    LET all_dtvars == {make_mem_tvar(tv, label) : tv \in all_tvars}
        reg_tvar == DerivedTypeVar_new(memop.reg_value)
    IN memop.reg_constraints
           \cup {IF memop_is_upcasted THEN SubTy(memop_tvar, reg_tvar)
                                      ELSE SubTy(reg_tvar, memop_tvar) :
                    memop_tvar \in all_dtvars}

\* nd_cont.points_to is the answer of PointsToMapping::points_to at this
\* node, by address expression and access size.
apply_load(nd_cont, tid, v_into, address, vman) ==
    LET memop == [sz |-> v_into.size, addr |-> address,
                  reg_value |-> tid_indexed_by_variable(tid, v_into),
                  reg_constraints |-> {}]
    IN [cs |-> apply_mem_op(memop, nd_cont.points_to[<<memop.addr, memop.sz>>], Load, TRUE),
        vman |-> vman]

apply_store(nd_cont, tid, value_from, address_into, vman) ==
    LET reg == evaluate_expression(nd_cont, value_from, vman)
        memop == [sz |-> value_from.size, addr |-> address_into,
                  reg_value |-> reg.tv, reg_constraints |-> reg.cs]
    IN [cs |-> apply_mem_op(memop, nd_cont.points_to[<<memop.addr, memop.sz>>], Store, FALSE),
        vman |-> reg.vman]

handle_def(nd_cont, df, vman) ==
    IF df.kind = "Load" THEN apply_load(nd_cont, df.tid, df.var, df.address, vman)
    ELSE IF df.kind = "Store" THEN apply_store(nd_cont, df.tid, df.value, df.address, vman)
    ELSE apply_assign(nd_cont, df.tid, df.var, df.value, vman)

RECURSIVE handle_defs_from(_, _, _, _, _)
\* The fold of handle_block_start from the i-th definition on.
handle_defs_from(nd_cont, defs, i, x, vman) ==
    IF i > Len(defs) THEN [cs |-> x, vman |-> vman]
    ELSE LET y == handle_def(nd_cont, defs[i], vman)
         IN handle_defs_from(nd_cont, defs, i + 1, x \cup y.cs, y.vman)

handle_block_start(nd_cont, blk, vman) == handle_defs_from(nd_cont, blk.defs, 1, {}, vman)
argtvar_to_dtv(tvar) ==
    IF tvar.kind = "VariableTvar" THEN DerivedTypeVar_new(tvar.tv)
    ELSE make_loaded_tvar(tvar.access)

\* nd_cont.subprocedure_locators is the answer of
\* get_type_variables_and_constraints_for_arg at this node, by argument.
arg_to_constraints(nd_cont, arg, formal, arg_is_subtype_of_representations) ==
    LET located == nd_cont.subprocedure_locators[arg]
    IN located.cs
           \cup {IF arg_is_subtype_of_representations
                 THEN SubTy(formal, argtvar_to_dtv(tvar))
                 ELSE SubTy(argtvar_to_dtv(tvar), formal) : tvar \in located.tvars}

create_actual_args(sz, target_func) ==
    [idx \in 1 .. sz |-> DerivedTypeVar_new(arg_tvar(idx - 1, target_func.tid))]

\* A variant with the two sides exchanged.
generate_formal_constraint_swapped(formal, actual) == SubTy(actual, formal)

generate_formal_constraint(formal, actual) == SubTy(formal, actual)

\* index_to_field_label is "In" for handle_call and "Out" for handle_return;
\* sequences are indexed from 1, the labels from 0.
handle_function_args(nd_cont, target_function, actual_typevars, args, index_to_field_label, arg_is_subtype_of_representations) ==
    UNION {LET formal == add_field_label(
                             DerivedTypeVar_new(term_to_tvar(target_function)),
                             IF index_to_field_label = "In" THEN In(ind - 1)
                                                            ELSE OutAt(ind - 1))
               actual == actual_typevars[ind]
           IN arg_to_constraints(nd_cont, args[ind], formal,
                                 arg_is_subtype_of_representations)
                  \cup {generate_formal_constraint(formal, actual)} :
           ind \in DOMAIN args}

handle_call(nd_cont, target_function) ==
    handle_function_args(nd_cont, target_function,
        create_actual_args(Len(target_function.formal_args), target_function),
        target_function.formal_args, "In", FALSE)

\* create_actual_rets panics on an Arg::Stack.
create_actual_rets_ok(rets) == \A i \in DOMAIN rets : rets[i].kind = "Register"

create_actual_rets(call, rets) ==
    [i \in DOMAIN rets |-> DerivedTypeVar_new(tid_indexed_by_variable(call, rets[i].var))]

handle_return(nd_cont, call, return_from) ==
    handle_function_args(nd_cont, return_from,
        create_actual_rets(call, return_from.formal_rets),
        return_from.formal_rets, "Out", FALSE)

\* call_blk_to_call(..).expect(..) and create_actual_rets: the two panics of
\* a CallReturn node that has a context.
handle_return_ok(nd) == nd.call # "None" /\ create_actual_rets_ok(nd.return_proc.formal_rets)

\* generate_constraints_for_node panics only in the CallReturn arm; has_cont
\* tells whether node_contexts has an entry for the node.
generate_constraints_for_node_ok(nd) ==
    (nd.has_cont /\ nd.kind = "CallReturn") => handle_return_ok(nd)

generate_constraints_for_node(nd, vman) ==
    IF ~nd.has_cont THEN [cs |-> {}, vman |-> vman]
    ELSE IF nd.kind = "BlkStart" THEN handle_block_start(nd.nd_cont, nd.blk, vman)
    ELSE IF nd.kind = "CallReturn"
    THEN [cs |-> handle_return(nd.nd_cont, nd.call, nd.return_proc), vman |-> vman]
    ELSE IF nd.kind = "CallSource"
    THEN [cs |-> handle_call(nd.nd_cont, nd.target), vman |-> vman]
    ELSE [cs |-> {}, vman |-> vman]
\* The inputs of the generator: registers, memory cells, definitions,
\* subprocedures and the answers of the collaborators.
Variable(name, size) == [name |-> name, size |-> size]

Var(var) == [kind |-> "Var", var |-> var, size |-> var.size]

\* An expression that is not a register read (a constant, an operation).
OtherExpression(size) == [kind |-> "Other", size |-> size]

TypeVariableAccess(ty_var, sz, offset) == [ty_var |-> ty_var, sz |-> sz, offset |-> offset]

MemTvar(tv_access) == [kind |-> "MemTvar", access |-> tv_access]

VariableTvar(tv) == [kind |-> "VariableTvar", tv |-> tv]

RegisterArg(var) == [kind |-> "Register", var |-> var]

StackArg(offset, size) == [kind |-> "Stack", offset |-> offset, size |-> size]

MaxPointsTo == 2

AccessSizes == {4, 8}

\* The accesses points_to may name: two cells, each as a whole or at offset 8.
Accesses ==
    {TypeVariableAccess(TypeVariable(m, ""), sz, off) :
        m \in {"mem_a", "mem_b"}, sz \in AccessSizes, off \in {<<>>, <<8>>}}

PointsToAnswers == {s \in SUBSET Accesses : Cardinality(s) <= MaxPointsTo}

RAX == Variable("RAX", 8)

RDI == Variable("RDI", 8)

\* Reaching definitions of the registers at a node: one definition, two,
\* or the register missing from the mapping.
RegisterMaps ==
    {[r \in {"RDI"} |-> {"def_1"}], [r \in {"RDI"} |-> {"def_1", "def_2"}], EmptyFun}

MemoryDefs ==
    {[tid |-> "def_3", kind |-> "Load", var |-> RAX, address |-> Var(RDI)],
     [tid |-> "def_3", kind |-> "Store", value |-> Var(RDI), address |-> Var(RAX)],
     [tid |-> "def_3", kind |-> "Store", value |-> OtherExpression(4), address |-> Var(RAX)]}

def_address_and_size(df) ==
    IF df.kind = "Load" THEN <<df.address, df.var.size>> ELSE <<df.address, df.value.size>>

AssignDef == [tid |-> "def_4", kind |-> "Assign", var |-> RAX, value |-> Var(RDI)]

\* A block with one memory definition followed by an assignment.
MemoryNodes ==
    {[kind |-> "BlkStart", has_cont |-> TRUE,
      nd_cont |-> [reg_map |-> reg_map,
                   points_to |-> [a \in {def_address_and_size(df)} |-> pts],
                   subprocedure_locators |-> EmptyFun],
      blk |-> [defs |-> <<df, AssignDef>>]] :
        df \in MemoryDefs, pts \in PointsToAnswers,
        reg_map \in {[r \in {"RDI"} |-> {"def_1"}]}}
        \cup
    {[kind |-> "BlkStart", has_cont |-> TRUE,
      nd_cont |-> [reg_map |-> reg_map,
                   points_to |-> [a \in {def_address_and_size(df)} |->
                                     {TypeVariableAccess(TypeVariable("mem_a", ""), 8, <<>>)}],
                   subprocedure_locators |-> EmptyFun],
      blk |-> [defs |-> <<df, AssignDef>>]] :
        df \in MemoryDefs, reg_map \in RegisterMaps}

\* What the locators may answer for an argument: the register's variable,
\* two variables, a stack cell read through the stack pointer, nothing; with
\* or without a side constraint.
LocatorAnswers(arg) ==
    {[tvars |-> tvars, cs |-> cs] :
        tvars \in IF arg.kind = "Register"
                  THEN {{VariableTvar(TypeVariable("def_1_" \o arg.var.name, ""))},
                        {VariableTvar(TypeVariable("def_1_" \o arg.var.name, "")),
                         VariableTvar(TypeVariable("def_2_" \o arg.var.name, ""))},
                        {}}
                  ELSE {{MemTvar(TypeVariableAccess(TypeVariable("stack", ""), arg.size,
                                                    <<arg.offset>>))},
                        {MemTvar(TypeVariableAccess(TypeVariable("stack", ""), arg.size, <<>>))}},
        cs \in {{}, {SubTy(DerivedTypeVar_new(TypeVariable("def_1_RDI", "")),
                           DerivedTypeVar_new(TypeVariable("fresh_loc", "")))}}}

FormalArgs == {<<>>, <<RegisterArg(RDI)>>, <<RegisterArg(RDI), StackArg(8, 4)>>}

FormalRets == {<<>>, <<RegisterArg(RAX)>>, <<StackArg(0, 8)>>, <<RegisterArg(RAX), StackArg(0, 8)>>}

Sub(tid, formal_args, formal_rets) ==
    [tid |-> tid, formal_args |-> formal_args, formal_rets |-> formal_rets]

Locators(args) ==
    {l \in [Range(args) -> UNION {LocatorAnswers(a) : a \in Range(args)}] :
        \A a \in Range(args) : l[a] \in LocatorAnswers(a)}

CallSourceNodes ==
    UNION {{[kind |-> "CallSource", has_cont |-> TRUE,
             nd_cont |-> [reg_map |-> EmptyFun, points_to |-> EmptyFun,
                          subprocedure_locators |-> l],
             target |-> Sub("sub_g", args, <<RegisterArg(RAX)>>)] : l \in Locators(args)} :
           args \in FormalArgs}

CallReturnNodes ==
    UNION {{[kind |-> "CallReturn", has_cont |-> has_cont,
             nd_cont |-> [reg_map |-> EmptyFun, points_to |-> EmptyFun,
                          subprocedure_locators |->
                              [a \in Range(rets) |-> CHOOSE x \in LocatorAnswers(a) : TRUE]],
             call |-> call,
             return_proc |-> Sub("sub_g", <<>>, rets)] :
                has_cont \in BOOLEAN, call \in {"call_g", "None"}} :
           rets \in FormalRets}

BlkEndNode == [kind |-> "BlkEnd", has_cont |-> TRUE,
               nd_cont |-> [reg_map |-> EmptyFun, points_to |-> EmptyFun,
                            subprocedure_locators |-> EmptyFun]]

\* The first block of another function, sub_h.
OtherFunctionNode ==
    [kind |-> "BlkStart", has_cont |-> TRUE,
     nd_cont |-> [reg_map |-> [r \in {"RDI"} |-> {"def_1"}], points_to |-> EmptyFun,
                  subprocedure_locators |-> EmptyFun],
     blk |-> [defs |-> <<[tid |-> "def_9", kind |-> "Assign", var |-> RAX,
                          value |-> Var(RDI)]>>]]

DefaultMemoryNode ==
    CHOOSE nd \in MemoryNodes :
        /\ nd.blk.defs[1].kind = "Load"
        /\ nd.nd_cont.points_to[def_address_and_size(nd.blk.defs[1])] = {}

DefaultCallSourceNode == CHOOSE nd \in CallSourceNodes : nd.target.formal_args = <<>>

DefaultCallReturnNode ==
    CHOOSE nd \in CallReturnNodes :
        nd.has_cont /\ nd.call = "call_g" /\ nd.return_proc.formal_rets = <<RegisterArg(RAX)>>

\* The nodes of the ICFG in the order of graph.node_indices(): a block of
\* sub_f, its call to sub_g, the return from it, the end of the block, and a
\* block of sub_h. One of the first three nodes varies.
Icfgs ==
    {<<m, DefaultCallSourceNode, DefaultCallReturnNode, BlkEndNode, OtherFunctionNode>> :
        m \in MemoryNodes}
    \cup {<<DefaultMemoryNode, c, DefaultCallReturnNode, BlkEndNode, OtherFunctionNode>> :
            c \in CallSourceNodes}
    \cup {<<DefaultMemoryNode, DefaultCallSourceNode, r, BlkEndNode, OtherFunctionNode>> :
            r \in CallReturnNodes}
InitGen ==
    /\ g = new
    /\ op = [name |-> "new"]
    /\ skb \in {[pass |-> "gen", pos |-> 1, prog |-> icfg, cs |-> {}, vman |-> 0] :
                   icfg \in Icfgs}

\* A variant of the loop that gives up the node whose handler fails and
\* goes on with the next one.
generate_constraints_skipping(gen, nd) ==
    [gen EXCEPT !.pos = @ + 1,
                !.pass = IF gen.pos = Len(gen.prog) THEN "done" ELSE "gen"]

\* One round of the loop of generate_constraints: the constraints of the
\* node are united with cs; a panic of the handler unwinds the loop; after
\* the last node cs is returned.
generate_constraints(gen, nd) ==
    IF ~generate_constraints_for_node_ok(nd)
    THEN [gen EXCEPT !.pass = "panicked"]
    ELSE LET new_cons == generate_constraints_for_node(nd, gen.vman)
         IN [gen EXCEPT !.cs = @ \cup new_cons.cs,
                        !.vman = new_cons.vman,
                        !.pos = @ + 1,
                        !.pass = IF gen.pos = Len(gen.prog) THEN "done" ELSE "gen"]

\* The arm of generate_constraints_for_node for a node with a context.
GenerateConstraintsForNode(kind) ==
    LET nd == skb.prog[skb.pos]
    IN    /\ nd.has_cont /\ nd.kind = kind
          /\ skb' = generate_constraints(skb, nd)
          /\ op' = [name |-> kind, nd |-> nd, vman |-> skb.vman,
                    added |-> IF generate_constraints_for_node_ok(nd)
                              THEN generate_constraints_for_node(nd, skb.vman).cs
                              ELSE {}]
          /\ g' = g

BlkStart ==
    /\ skb.pass = "gen"
    /\ GenerateConstraintsForNode("BlkStart")

CallSource ==
    /\ skb.pass = "gen"
    /\ GenerateConstraintsForNode("CallSource")

CallReturn ==
    /\ skb.pass = "gen"
    /\ GenerateConstraintsForNode("CallReturn")

BlkEnd ==
    /\ skb.pass = "gen"
    /\ GenerateConstraintsForNode("BlkEnd")

\* node_contexts has no entry for the node: it contributes nothing.
NoNodeContext ==
    /\ skb.pass = "gen"
    /\ LET nd == skb.prog[skb.pos]
       IN /\ ~nd.has_cont
          /\ skb' = generate_constraints(skb, nd)
          /\ op' = [name |-> "NoNodeContext", nd |-> nd, vman |-> skb.vman, added |-> {}]
          /\ g' = g

NextGen == BlkStart \/ CallSource \/ CallReturn \/ BlkEnd \/ NoNodeContext

SpecGen == InitGen /\ [][NextGen]_vars


(* C15: a function whose formal return is passed in a stack slot is        *)
(* skipped and constraint generation goes on. generate_constraints never   *)
(* panics at a CallReturn node because a formal return of the returning    *)
(* function is an Arg::Stack; when it has walked all nodes, the            *)
(* constraints of the nodes of the other functions are in the set it       *)
(* returns.                                                                *)
stack_return(nd) ==
    /\ nd.kind = "CallReturn" /\ nd.has_cont /\ nd.call # "None"
    /\ ~create_actual_rets_ok(nd.return_proc.formal_rets)

C15_StackReturnSkipped ==
    /\ skb.pass = "panicked" => ~stack_return(op.nd)
    /\ skb.pass = "done" =>
          generate_constraints_for_node(OtherFunctionNode, skb.vman).cs \subseteq skb.cs


(* C20: for a CallSource node targeting sub with n formal arguments,       *)
(* handle_call adds exactly: for every index i < n, actual <= sub.in_i for *)
(* every ArgTvar the locators return for argument i (a VariableTvar as the *)
(* variable itself, a MemTvar as the variable followed by Load and, if it  *)
(* has a constant offset, by the field at that offset of 8 times its size),*)
(* the constraint sub.in_i <= arg_<sub>_<i>, and the side constraints the  *)
(* locators return for argument i.                                         *)
claimed_actual(tvar) ==
    IF tvar.kind = "VariableTvar" THEN DTV(tvar.tv.name, tvar.tv.cs_tag, <<>>)
    ELSE DTV(tvar.access.ty_var.name, tvar.access.ty_var.cs_tag,
             IF tvar.access.offset = <<>> THEN <<"load">>
             ELSE <<"load", "sigma" \o ToString(8 * tvar.access.sz) \o "@"
                                   \o ToString(tvar.access.offset[1])>>)

claimed_call_constraints(nd) ==
    LET sub == nd.target
        located == nd.nd_cont.subprocedure_locators
    IN UNION {LET formal == DTV(sub.tid, "", <<"in_" \o ToString(i - 1)>>)
                  slot == DTV("arg_" \o sub.tid \o "_" \o ToString(i - 1), "", <<>>)
                  arg == sub.formal_args[i]
              IN {<<claimed_actual(tvar), formal>> : tvar \in located[arg].tvars}
                     \cup {<<formal, slot>>}
                     \cup located[arg].cs :
              i \in 1 .. Len(sub.formal_args)}

C20_CallConstraints ==
    op.name = "CallSource" =>
        /\ op.added = claimed_call_constraints(op.nd)
        /\ op.added \subseteq skb.cs
        /\ skb.pass # "panicked"

\* handle_call has run for a subprocedure with a register argument and a
\* stack argument read at a constant offset, with a side constraint of the
\* locators.
C20_Witness ==
    /\ op.name = "CallSource"
    /\ Len(op.nd.target.formal_args) = 2
    /\ \E a \in Range(op.nd.target.formal_args) :
          /\ a.kind = "Stack"
          /\ \E t \in op.nd.nd_cont.subprocedure_locators[a].tvars : t.access.offset # <<>>
    /\ \E a \in Range(op.nd.target.formal_args) :
          /\ a.kind = "Register"
          /\ Cardinality(op.nd.nd_cont.subprocedure_locators[a].tvars) = 2
          /\ op.nd.nd_cont.subprocedure_locators[a].cs # {}
    /\ Cardinality(op.added) = 6


(* C19: for a Load or Store definition the constraints added for memory    *)
(* are one per distinct points-to target. The definition is the first one  *)
(* of its block; the memory-side variable of a target is its type variable *)
(* followed by Load (Store) and, iff the target has a constant offset, by  *)
(* the field at that offset of 8 times the size of the target; a load adds *)
(* memory <= T_{tid,v}, a store T_value <= memory; an empty points-to set  *)
(* adds none.                                                              *)
memory_def(nd) == nd.blk.defs[1]

points_to_answer(nd) == nd.nd_cont.points_to[def_address_and_size(memory_def(nd))]

claimed_memory_variable(t, label) ==
    DTV(t.ty_var.name, t.ty_var.cs_tag,
        IF t.offset = <<>> THEN <<label>>
        ELSE <<label, "sigma" \o ToString(8 * t.sz) \o "@" \o ToString(t.offset[1])>>)

claimed_memory_constraints(nd, vman) ==
    LET df == memory_def(nd)
    IN IF df.kind = "Load"
       THEN {<<claimed_memory_variable(t, "load"), DTV(df.tid \o "_" \o df.var.name, "", <<>>)>> :
                t \in points_to_answer(nd)}
       ELSE {<<DerivedTypeVar_new(evaluate_expression(nd.nd_cont, df.value, vman).tv),
               claimed_memory_variable(t, "store")>> : t \in points_to_answer(nd)}

\* The constraints with a side that starts with Load or Store.
memory_constraints(cs) ==
    {c \in cs : \/ c[1].path # <<>> /\ c[1].path[1] = Load
                \/ c[2].path # <<>> /\ c[2].path[1] = Store}

is_memory_step == op.name = "BlkStart" /\ memory_def(op.nd).kind \in {"Load", "Store"}

same_whole_cell(t1, t2) ==
    t1 # t2 /\ t1.ty_var = t2.ty_var /\ t1.offset = <<>> /\ t2.offset = <<>>

---------------------------------------------------------------------------
(* The while loop of generate_quotient_groups, one round at a time.  skb   *)
(* holds the locals of the function: cons (the union-find),                *)
(* edge_implications, prev_labeling, and where the function stands (stage  *)
(* start, for, collect, done) and todo, the part of the clone of           *)
(* edge_implications the for loop has still to walk: the clone is a        *)
(* HashSet, so the next implication is any of todo; g is the graph the     *)
(* function was given.                                                     *)

FixCandidateEdges == (0 .. (MaxNodes - 1)) \X Labels \X (0 .. (MaxNodes - 1))

\* A node with a Load edge to itself and one to a second node: the targets
\* are united in the first round whatever the order.
FixChain == {<<0, Load, 0>>, <<0, Load, 1>>}

\* Every set of at most MaxEdges edges, and FixChain with one more edge that
\* leaves another node (an edge whose implications wait for the first union).
FixEdgeSets ==
    EdgeSetsUpTo(FixCandidateEdges, MaxEdges)
        \cup {FixChain \cup {e} : e \in {x \in FixCandidateEdges : Src(x) # 0}}

\* The graph with MaxNodes nodes, node i keyed by KeyOrder[i + 1], and edges E.
fix_graph(E) ==
    inplace_relable_representative_nodes(
        [nd |-> [i \in 0 .. (MaxNodes - 1) |-> identity_element],
         ed |-> [e \in E |-> 1],
         free |-> <<>>,
         n |-> MaxNodes,
         nodes |-> EmptyFun,
         reprs |-> EmptyFun],
        [k \in Range(KeyOrder) |-> (CHOOSE i \in DOMAIN KeyOrder : KeyOrder[i] = k) - 1])

FixGraphs == {fix_graph(E) : E \in FixEdgeSets}

InitFixpoint ==
    /\ g \in FixGraphs
    /\ op = [name |-> "new"]
    /\ skb \in {[pass |-> "quotient", stage |-> "start", cons_set |-> cs] :
                   cs \in UNION {ConstraintSets(gr) : gr \in FixGraphs}}

\* The body of the for loop for one implication of the clone.
implication_step(st, implic) ==
    IF uf_equiv(st.cons, implic.eq[1], implic.eq[2])
    THEN [st EXCEPT !.cons = uf_union(st.cons, implic.edge[1], implic.edge[2]),
                    !.edge_implications = @ \ {implic},
                    !.todo = @ \ {implic}]
    ELSE [st EXCEPT !.todo = @ \ {implic}]

\* A condition that compares with the labeling before any union.
labeling_not_initial(cons, prev_labeling) == cons # uf_new(Cardinality(DOMAIN prev_labeling))

\* The condition of the while loop.
labeling_changed(cons, prev_labeling) == cons # prev_labeling

\* The measure of the loop: pending implications plus elements minus classes.
fixpoint_measure(cons, pending) ==
    Cardinality(pending) + (Cardinality(DOMAIN cons) - Cardinality(Range(cons)))

\* The start of a round: prev_labeling and the clone the for loop walks.
start_round(st) ==
    [st EXCEPT !.stage = "for", !.prev_labeling = st.cons,
               !.todo = st.edge_implications,
               !.before = fixpoint_measure(st.cons, st.edge_implications),
               !.rounds = @ + 1]

GenerateQuotientGroupsBegin ==
    /\ skb.pass = "quotient" /\ skb.stage = "start"
    /\ g' = g
    /\ skb' = start_round([pass |-> "quotient", stage |-> "start", cons_set |-> skb.cons_set,
                           cons |-> constraint_quotients(g, skb.cons_set),
                           edge_implications |-> get_edge_set(g),
                           prev_labeling |-> <<>>, todo |-> {}, before |-> 0, rounds |-> 0])
    /\ op' = [name |-> "constraint_quotients"]

ForStep ==
    /\ skb.pass = "quotient" /\ skb.stage = "for"
    /\ \E implic \in skb.todo :
         /\ skb' = implication_step(skb, implic)
         /\ op' = [name |-> "for", fired |-> skb'.cons # skb.cons]
    /\ g' = g

WhileCond ==
    /\ skb.pass = "quotient" /\ skb.stage = "for" /\ skb.todo = {}
    /\ skb' = IF labeling_changed(skb.cons, skb.prev_labeling)
              THEN start_round(skb) ELSE [skb EXCEPT !.stage = "collect"]
    /\ op' = [name |-> "while_cond"]
    /\ g' = g

CollectGroups ==
    /\ skb.pass = "quotient" /\ skb.stage = "collect"
    /\ skb' = [skb EXCEPT !.stage = "done"]
    /\ op' = [name |-> "into_labeling", groups |-> groups_of_labeling(g, skb.cons)]
    /\ g' = g

NextFixpoint ==
    \/ GenerateQuotientGroupsBegin
    \/ ForStep
    \/ WhileCond
    \/ CollectGroups

\* generate_quotient_groups is one sequential call: a step that can be taken
\* is taken.
SpecFixpoint == InitFixpoint /\ [][NextFixpoint]_vars /\ WF_vars(NextFixpoint)

\* The groups do not depend on the order of the implications.
FixpointAgrees ==
    (skb.pass = "quotient" /\ skb.stage = "done")
        => op.groups = generate_quotient_groups(g, skb.cons_set)

\* A round has run its for loop to the end.
round_over == skb.pass = "quotient" /\ skb.stage = "for" /\ skb.todo = {}

---------------------------------------------------------------------------
(* merge_nodes, remove_node and remove_node_by_idx on graphs whose nodes   *)
(* carry different bounds, whose keys may share a node or be unmapped, and *)
(* whose edges include self-loops.                                         *)

MergeWeights == {LatticeBounds("char", "bottom"), LatticeBounds("bytetype", "int")}

\* The key maps: one key per node, two keys on the first node, and a key
\* that is not mapped.
MergeKeyMaps ==
    {[k \in Range(KeyOrder) |-> (CHOOSE i \in DOMAIN KeyOrder : KeyOrder[i] = k) - 1],
     (KeyOrder[1] :> 0) @@ (KeyOrder[2] :> 0) @@ (KeyOrder[3] :> 1),
     (KeyOrder[1] :> 0) @@ (KeyOrder[2] :> 1)}

merge_graph(mapping, weights, E) ==
    inplace_relable_representative_nodes(
        [nd |-> weights,
         ed |-> [e \in E |-> 1],
         free |-> <<>>,
         n |-> Cardinality(DOMAIN weights),
         nodes |-> EmptyFun,
         reprs |-> EmptyFun],
        mapping)

MergeGraphs ==
    UNION {{merge_graph(mapping, weights, E) :
               weights \in [Range(mapping) -> MergeWeights],
               E \in EdgeSetsUpTo(Range(mapping) \X Labels \X Range(mapping), MaxEdges)} :
           mapping \in MergeKeyMaps}

InitMerge ==
    /\ g \in MergeGraphs
    /\ op = [name |-> "new"]
    /\ skb = [pass |-> "merge"]

WMergeNodes ==
    \E key1 \in Keys, key2 \in Keys :
        /\ skb.pass = "merge"
        /\ g' = merge_nodes(g, key1, key2)
        /\ UNCHANGED skb
        /\ op' = [name |-> "merge_nodes", key1 |-> key1, key2 |-> key2,
                  both |-> has_node(g, key1) /\ has_node(g, key2)
                           /\ get_node(g, key1) # get_node(g, key2)]

WRemoveNode ==
    \E key \in Keys :
        /\ skb.pass = "merge"
        /\ g' = remove_node(g, key)
        /\ UNCHANGED skb
        /\ op' = [name |-> "remove_node", key |-> key, mapped |-> has_node(g, key),
                  shared |-> has_node(g, key)
                             /\ get_group_for_node(g, get_node(g, key)) # {key}]

WRemoveNodeByIdx ==
    \E idx \in 0 .. MaxNodes :
        /\ skb.pass = "merge"
        /\ g' = remove_node_by_idx(g, idx)
        /\ UNCHANGED skb
        /\ op' = [name |-> "remove_node_by_idx", idx |-> idx]

NextMerge ==
    \/ WMergeNodes
    \/ WRemoveNode
    \/ WRemoveNodeByIdx

SpecMerge == InitMerge /\ [][NextMerge]_vars

(* C22: merge_nodes(k1, k2) with the keys on distinct nodes a and b loses   *)
(* no edge: every edge (s, w, t) of the graph before has an edge of weight *)
(* w from s' to t' after, x' being the merged node for a and b and x       *)
(* otherwise (self-loops of a or b and edges between them included); all   *)
(* keys of a and b map to the merged node, whose weight is                 *)
(* operate(weight(a), weight(b)); the merged node is fresh and a and b are *)
(* gone.                                                                   *)
C22_MergeLosesNoEdge ==
    [][(op'.name = "merge_nodes" /\ op'.both) =>
          LET a == get_node(g, op'.key1)
              b == get_node(g, op'.key2)
              merged == get_node(g', op'.key1)
              img(x) == IF x \in {a, b} THEN merged ELSE x
          IN /\ \A e \in Edges(g) : <<img(Src(e)), Wt(e), img(Dst(e))>> \in Edges(g')
             /\ \A k \in get_group_for_node(g, a) \cup get_group_for_node(g, b) :
                   has_node(g', k) /\ get_node(g', k) = merged
             /\ merged \in node_indices(g') \ node_indices(g)
             /\ g'.nd[merged] = operate(g.nd[a], g.nd[b])
             /\ a \notin node_indices(g') /\ b \notin node_indices(g')]_vars

\* Two nodes with an edge between them and a self-loop were merged: the
\* merged node has a self-loop for each, and bounds neither of them had.
C22_Witness ==
    /\ op.name = "merge_nodes" /\ op.both
    /\ LET merged == get_node(g, op.key1)
       IN /\ <<merged, Load, merged>> \in Edges(g)
          /\ <<merged, Store, merged>> \in Edges(g)
          /\ g.nd[merged] = LatticeBounds("char", "int")
          /\ Cardinality(node_indices(g)) = 2


---------------------------------------------------------------------------
(* The binary sketch operations.  Sketch::union and Sketch::intersect      *)
(* (type_sketch.rs:970-976) are applied to every pair of operand sketches: *)
(* deterministic graphs reachable from the entry, with at most             *)
(* MaxReplNodes nodes and MaxReplEdges edges, bounds drawn from            *)
(* BinopWeights.  The Vec of groups generate_quotient_groups returns is in *)
(* the iteration order of a HashMap: every order is taken.                 *)

\* Two bounds whose join and whose meet are neither of them.
BinopWeights == {LatticeBounds("char", "bottom"), LatticeBounds("int", "int")}

BinopEdgeSets == {E \in ReplEdgeSets : \A n \in EdgeSetNodes(E) \ {0} : \E e \in E : Src(e) = 0 /\ Dst(e) = n}

binop_operand(root, E, w) ==
    Sketch([repl_graph(root, E, EmptyFun) EXCEPT !.nd = w], root)

BinopSketches(root) ==
    UNION {{binop_operand(root, E, w) : w \in [EdgeSetNodes(E) -> BinopWeights]} :
              E \in BinopEdgeSets}

InitBinop ==
    /\ g = new
    /\ op = [name |-> "new"]
    /\ \E s \in BinopSketches(KeyOrder[1]), o \in BinopSketches(KeyOrder[2]) :
           skb = [pass |-> "binop", self |-> s, other |-> o]

\* self.union(other): the result graph, with the order of the groups and
\* the labelled product kept as history.
SketchUnion ==
    /\ op.name = "new"
    /\ \E q \in GroupOrders(binop_quot_groups(skb.self, skb.other, "join",
                                              intersection(skb.self, skb.other))) :
           /\ g' = sketch_union(skb.self, skb.other, q).quotient_graph
           /\ op' = [name |-> "union", lattice_op |-> "join", quot_groups |-> q,
                     weight_mapping |-> binop_weight_mapping(skb.self, skb.other, "join",
                                            intersection(skb.self, skb.other))]
    /\ UNCHANGED skb

\* self.intersect(other).
SketchIntersect ==
    /\ op.name = "new"
    /\ \E q \in GroupOrders(binop_quot_groups(skb.self, skb.other, "meet",
                                              union(skb.self, skb.other))) :
           /\ g' = sketch_intersect(skb.self, skb.other, q).quotient_graph
           /\ op' = [name |-> "intersect", lattice_op |-> "meet", quot_groups |-> q,
                     weight_mapping |-> binop_weight_mapping(skb.self, skb.other, "meet",
                                            union(skb.self, skb.other))]
    /\ UNCHANGED skb

NextBinop == SketchUnion \/ SketchIntersect

SpecBinop == InitBinop /\ [][NextBinop]_vars

binop_done == skb.pass = "binop" /\ op.name \in {"union", "intersect"}

\* The product automaton of the operands as a graph, with its entry.
binop_product == create_graph_from_dfa(product(skb.self, skb.other))

\* The node of the result that the group of the product state s became.
quotient_image(s) == (CHOOSE i \in DOMAIN op.quot_groups : s \in op.quot_groups[i]) - 1

bound_at(sk, w) ==
    {sk.quotient_graph.nd[n] : n \in find_node(sk.quotient_graph, get_entry(sk), w)}

\* The bound the product node at the end of the weights w is to get.
expected_bound(w) ==
    LET l == bound_at(skb.self, w)
        r == bound_at(skb.other, w)
        only(s) == CHOOSE b \in s : TRUE
    IN IF l # {} /\ r # {}
       THEN IF op.lattice_op = "join" THEN bounds_join(only(l), only(r))
            ELSE bounds_meet(only(l), only(r))
       ELSE IF l # {} THEN only(l)
       ELSE IF r # {} THEN only(r)
       ELSE identity_element

---------------------------------------------------------------------------
(* Pass A on one SCC, step by step: build_and_label_scc_sketch             *)
(* (type_sketch.rs:442-475) for the function sub_f, whose constraints may  *)
(* name the lattice elements and the external function sub_g, built        *)
(* before.  skb holds the signature, scc_repr and the stage reached; g is  *)
(* nd_graph, then quoted_graph.                                            *)

SccFn == "sub_f"
SccCallee == "sub_g"

\* The sketch of sub_g: sub_g -in_0-> sub_g.in_0, the parameter bounded.
scc_callee_sketch ==
    [nd |-> (0 :> identity_element) @@ (1 :> LatticeBounds("bytetype", "char")),
     ed |-> (<<0, In0, 1>> :> 1),
     free |-> <<>>,
     n |-> 2,
     nodes |-> (DTV(SccCallee, "", <<>>) :> 0) @@ (DTV(SccCallee, "", <<In0>>) :> 1),
     reprs |-> (0 :> {DTV(SccCallee, "", <<>>)}) @@ (1 :> {DTV(SccCallee, "", <<In0>>)})]

\* The subtype constraints a signature is drawn from: labeling hints below
\* and above a variable, a hint on an external variable, a constraint
\* between two lattice elements, one whose left side is a derived lattice
\* reference, and external variables with and without a node in the sketch
\* of sub_g.
SccCandidates ==
    {<<DTV("char", "", <<>>), DTV(SccFn, "", <<In0>>)>>,
     <<DTV("int", "", <<>>), DTV(SccFn, "", <<In0>>)>>,
     <<DTV(SccFn, "", <<In0>>), DTV("int", "", <<>>)>>,
     <<DTV(SccFn, "", <<In0>>), DTV(SccFn, "", <<Out>>)>>,
     <<DTV(SccFn, "", <<Out>>), DTV("bytetype", "", <<>>)>>,
     <<DTV("char", "", <<>>), DTV("int", "", <<>>)>>,
     <<DTV("char", "", <<Load>>), DTV(SccFn, "", <<Out>>)>>,
     <<DTV("int", "", <<>>), DTV(SccCallee, "0", <<In0>>)>>,
     <<DTV(SccCallee, "0", <<In0>>), DTV("int", "", <<>>)>>,
     <<DTV(SccFn, "", <<Out>>), DTV(SccCallee, "0", <<In1>>)>>}

\* Signatures of at most two constraints, in either order.
SccSignatures ==
    {<<>>} \cup {<<c>> : c \in SccCandidates}
           \cup {<<x[1], x[2]>> : x \in {y \in SccCandidates \X SccCandidates : y[1] # y[2]}}

InitScc ==
    /\ g = new
    /\ op = [name |-> "new"]
    /\ \E sig \in SccSignatures :
           skb = [pass |-> "scc", stage |-> "start", to_reprs |-> <<SccFn>>, sig |-> sig,
                  scc_repr |-> (tid_to_tvar(SccCallee) :> scc_callee_sketch)]

\* self.add_nodes_and_initial_edges(&to_reprs, sig, &mut nd_graph)?
AddNodesAndInitialEdges ==
    /\ skb.pass = "scc" /\ skb.stage = "start"
    /\ IF add_nodes_and_initial_edges_ok(skb.scc_repr, skb.to_reprs, skb.sig)
       THEN /\ g' = add_nodes_and_initial_edges(skb.scc_repr, skb.to_reprs, skb.sig, new)
            /\ skb' = [skb EXCEPT !.stage = "nodes"]
       ELSE /\ g' = g
            /\ skb' = [skb EXCEPT !.stage = "error"]
    /\ op' = [name |-> "add_nodes_and_initial_edges"]

\* The unwraps of constraint_quotients: the highest node index, and the
\* node of each side of every constraint.
constraint_quotients_defined(grph, cons) ==
    /\ node_indices(grph) # {}
    /\ \A i \in DOMAIN cons : has_node(grph, cons[i][1]) /\ has_node(grph, cons[i][2])

\* The groups in ascending order of their least member, and in the
\* opposite order: the order only numbers the nodes of the quotient.
scc_group_orders(groups) ==
    LET asc == CHOOSE s \in GroupOrders(groups) :
                   \A i, j \in DOMAIN s : i < j => SetMin(s[i]) < SetMin(s[j])
    IN {asc, Reverse(asc)}

\* generate_quotient_groups(&nd_graph, sig) and nd_graph.quoetient_graph.
QuotientScc ==
    /\ skb.pass = "scc" /\ skb.stage = "nodes"
    /\ IF constraint_quotients_defined(g, skb.sig)
       THEN \E q \in scc_group_orders(generate_quotient_groups(g, Range(skb.sig))) :
               /\ g' = quoetient_graph(g, q)
               /\ skb' = [skb EXCEPT !.stage = "quotient"]
       ELSE /\ g' = g
            /\ skb' = [skb EXCEPT !.stage = "panicked"]
    /\ op' = [name |-> "quoetient_graph"]

\* self.label_by(&mut quoted_graph, sig); the graph before is kept as
\* history.
LabelBy ==
    /\ skb.pass = "scc" /\ skb.stage = "quotient"
    /\ g' = label_by(g, skb.sig)
    /\ skb' = [skb EXCEPT !.stage = "labelled"]
    /\ op' = [name |-> "label_by", before |-> g]

NextScc == AddNodesAndInitialEdges \/ QuotientScc \/ LabelBy

SpecScc == InitScc /\ [][NextScc]_vars


RECURSIVE join_all(_, _)
join_all(a, S) ==
    IF S = {} THEN a ELSE LET x == CHOOSE y \in S : TRUE IN join_all(join(a, x), S \ {x})

RECURSIVE meet_all(_, _)
meet_all(a, S) ==
    IF S = {} THEN a ELSE LET x == CHOOSE y \in S : TRUE IN meet_all(meet(a, x), S \ {x})

\* The constraints L <= rhs with L a bare lattice element and rhs on a node.
lower_hint(grph, c) == dtv_is_uninterpreted_lattice(c[1]) /\ has_node(grph, c[2])

\* The constraints lhs <= L with L a bare lattice element and lhs on a node.
upper_hint(grph, c) == dtv_is_uninterpreted_lattice(c[2]) /\ has_node(grph, c[1])

lower_hints_of(grph, cons, n) ==
    {c[1].base : c \in {x \in Range(cons) : lower_hint(grph, x) /\ get_node(grph, x[2]) = n}}

upper_hints_of(grph, cons, n) ==
    {c[2].base : c \in {x \in Range(cons) : upper_hint(grph, x) /\ get_node(grph, x[1]) = n}}

\* As upper_hints_of, without the constraints that are lower hints.
upper_hints_taken(grph, cons, n) ==
    {c[2].base : c \in {x \in Range(cons) : /\ upper_hint(grph, x) /\ ~lower_hint(grph, x)
                                            /\ get_node(grph, x[1]) = n}}

labelled == skb.pass = "scc" /\ skb.stage = "labelled"

\* label_by changes node weights only.
label_by_frame ==
    /\ g.ed = op.before.ed /\ g.nodes = op.before.nodes /\ g.reprs = op.before.reprs
    /\ node_indices(g) = node_indices(op.before)

(* C26 as stated: after label_by every node's lower bound is the join of   *)
(* its old lower bound with the elements L of the constraints L <= rhs on  *)
(* it, its upper bound the meet of its old upper bound with the elements L *)
(* of the constraints lhs <= L on it, a constraint with a bare lattice     *)
(* element on both sides counting for both, and nothing else changes.      *)
C26_BothRefinements ==
    labelled =>
        /\ label_by_frame
        /\ \A n \in node_indices(g) :
               /\ g.nd[n].lower_bound =
                      join_all(op.before.nd[n].lower_bound, lower_hints_of(g, skb.sig, n))
               /\ g.nd[n].upper_bound =
                      meet_all(op.before.nd[n].upper_bound, upper_hints_of(g, skb.sig, n))

\* What label_by does: as above, but a constraint that is a lower hint
\* (bare lattice element on the left, right side on a node) refines only
\* the lower bound, also when its right side is a bare lattice element.
HintsRefineBounds ==
    labelled =>
        /\ label_by_frame
        /\ \A n \in node_indices(g) :
               /\ g.nd[n].lower_bound =
                      join_all(op.before.nd[n].lower_bound, lower_hints_of(g, skb.sig, n))
               /\ g.nd[n].upper_bound =
                      meet_all(op.before.nd[n].upper_bound, upper_hints_taken(g, skb.sig, n))

\* char <= int and int <= sub_g:0.in_0: the quotient has put char, int and
\* the copied parameter on one node, bounded [bytetype, char]; label_by
\* raises its lower bound to join(char, char, int) and leaves the upper
\* bound, although int is the right side of the first constraint.
HintsRefineBoundsReached ==
    /\ labelled
    /\ skb.sig = <<<<DTV("char", "", <<>>), DTV("int", "", <<>>)>>,
                   <<DTV("int", "", <<>>), DTV(SccCallee, "0", <<In0>>)>>>>
    /\ get_node(g, DTV("char", "", <<>>)) = get_node(g, DTV(SccCallee, "0", <<In0>>))
    /\ op.before.nd[get_node(g, DTV(SccCallee, "0", <<In0>>))] = LatticeBounds("bytetype", "char")
    /\ g.nd[get_node(g, DTV(SccCallee, "0", <<In0>>))] = LatticeBounds("bytetype", "bytetype")


---------------------------------------------------------------------------
\* refine_formals is in one of its two loops.
refining == skb.pass = "B" /\ skb.stage \in {"in", "out"}

(* C28: the assertion of refine_formal (there is exactly one               *)
(* representation of the formal) holds whenever a formal is refined: every *)
(* formal still to be refined by the running loop of refine_formals has    *)
(* exactly one representation in the sketch being refined, whatever the    *)
(* earlier rounds of the loop have replaced, and no round stops at the     *)
(* assertion.                                                              *)
C28_AssertionHolds ==
    /\ refining => \A i \in DOMAIN skb.todo :
                      Len(get_representing_sketch(g, skb.todo[i])) = 1
    /\ (skb.pass = "panicked" /\ op.name \in {"refine_formal_in", "refine_formal_out"})
           => Len(get_representing_sketch(g, op.dtv)) = 1


\* The graphs differ in the numbering of their nodes only: a bijection of
\* the nodes keeps the weights, the keys of every node and the edges with
\* their multiplicities.
graph_isomorphic(a, b) ==
    LET cands == {x \in node_indices(a) \X node_indices(b) :
                     /\ a.nd[x[1]] = b.nd[x[2]]
                     /\ get_group_for_node(a, x[1]) = get_group_for_node(b, x[2])}
        image(f, e) == <<f[Src(e)], Wt(e), f[Dst(e)]>>
    IN /\ Cardinality(node_indices(a)) = Cardinality(node_indices(b))
       /\ DOMAIN a.nodes = DOMAIN b.nodes
       /\ \E f \in choice_maps(cands, node_indices(a)) :
             /\ \A x, y \in node_indices(a) : f[x] = f[y] => x = y
             /\ Edges(b) = {image(f, e) : e \in Edges(a)}
             /\ \A e \in Edges(a) : b.ed[image(f, e)] = a.ed[e]

\* A step of refine_formal that did not panic, for a formal no caller SCC
\* has a sketch of.
refined_without_callers ==
    /\ refining /\ skb.todo # <<>>
    /\ op'.name \in {"refine_formal_in", "refine_formal_out"}
    /\ skb'.pass # "panicked"
    /\ op'.sketches = <<>>

(* C27: when no caller SCC provides a sketch for the formal, refine_formal *)
(* keeps the original representation: the sketch graph after the step is   *)
(* the graph before it up to the numbering of the nodes, with the same     *)
(* keys on every node, the same bounds and the same edges.                 *)
C27_NoCallersKeepsRepresentation ==
    [][refined_without_callers => graph_isomorphic(g, g')]_vars


---------------------------------------------------------------------------
(* build on programs whose function sub_f has formals that share a node or *)
(* reach one another, called by none, one or two of the callers, each of   *)
(* which passes its own argument as the first argument of sub_f.           *)

FormalFn == "sub_f"

formal_dtv(path) == DTV(FormalFn, "", path)

\* The constraints of sub_f: in_1 reachable from in_0, on one node with it,
\* reachable along two paths; out reachable from in_0; in_0 reachable from
\* in_1 and on one node with out; in_0 reachable from itself.
FormalConstraints ==
    {<<SubTy(formal_dtv(<<In0, Load>>), formal_dtv(<<In1>>))>>,
     <<SubTy(formal_dtv(<<In0>>), formal_dtv(<<In1>>))>>,
     <<SubTy(formal_dtv(<<In0, Load>>), formal_dtv(<<In1>>)),
       SubTy(formal_dtv(<<In0, Store>>), formal_dtv(<<In1>>))>>,
     <<SubTy(formal_dtv(<<In0, Load>>), formal_dtv(<<Out>>))>>,
     <<SubTy(formal_dtv(<<In1, Load>>), formal_dtv(<<In0>>)),
       SubTy(formal_dtv(<<In0>>), formal_dtv(<<Out>>))>>,
     <<SubTy(formal_dtv(<<In0, Load>>), formal_dtv(<<In0>>))>>}

formal_program(fcons, n) ==
    [cg |-> [i \in 1 .. n |-> <<Callers[i], FormalFn>>],
     sig |-> [t \in {FormalFn} \cup Range(SubSeq(Callers, 1, n)) |->
                 IF t = FormalFn THEN fcons
                 ELSE <<SubTy(DTV(t, "", <<In0>>), DTV(FormalFn, "0", <<In0>>))>>],
     sorted |-> callers_first(<<FormalFn>> \o SubSeq(Callers, 1, n)),
     cycle_error |-> FALSE]

FormalPrograms == {formal_program(c, n) : c \in FormalConstraints, n \in 0 .. MaxCallers}

InitFormals ==
    /\ g = new
    /\ op = [name |-> "new"]
    /\ skb \in {[pass |-> "A", pos |-> 1, prog |-> p, scc_repr |-> EmptyFun,
                 stage |-> "start", todo |-> <<>>] : p \in FormalPrograms}

SpecFormals == InitFormals /\ [][NextBuild]_vars


---------------------------------------------------------------------------
\* The nodes of the graph before a replace_node step that are not in the
\* replaced region.
OutsideRegion == node_indices(op.pre) \ ReplacedRegion

(* C30: replace_node(key, replacement) changes nothing outside the         *)
(* replaced region R: every node outside R keeps its index, weight and     *)
(* keys, every edge between two nodes outside R is kept with its weight    *)
(* and multiplicity, and every other edge that touches a node outside R    *)
(* afterwards leads from it to an inserted node and is the re-attached     *)
(* copy of an edge that entered R.                                         *)
C30_OutsideUnchanged ==
    op.name = "replace_node" =>
        /\ \A n \in OutsideRegion :
              /\ n \in node_indices(g)
              /\ n \notin InsertedNodes
              /\ g.nd[n] = op.pre.nd[n]
              /\ get_group_for_node(g, n) = get_group_for_node(op.pre, n)
        /\ \A k \in DOMAIN op.pre.nodes :
              get_node(op.pre, k) \in OutsideRegion
                  => has_node(g, k) /\ get_node(g, k) = get_node(op.pre, k)
        /\ \A e \in Edges(op.pre) :
              (Src(e) \in OutsideRegion /\ Dst(e) \in OutsideRegion)
                  => e \in Edges(g) /\ g.ed[e] = op.pre.ed[e]
        /\ \A e \in Edges(g) :
              (Src(e) \in OutsideRegion \/ Dst(e) \in OutsideRegion)
                  => \/ e \in Edges(op.pre) /\ Src(e) \in OutsideRegion
                                            /\ Dst(e) \in OutsideRegion
                     \/ /\ Src(e) \in OutsideRegion
                        /\ \E x \in EnteringEdges :
                              /\ Src(x) = Src(e) /\ Wt(x) = Wt(e)
                              /\ \E r \in ReplacementNodesFor(Dst(x)) : Dst(e) = InsertedCopy[r]

\* A replacement next to two keyed nodes outside the region that are joined
\* by an edge, one of which had an edge into the region that was
\* re-attached.
C30_Witness ==
    /\ op.name = "replace_node"
    /\ \E e \in Edges(op.pre) :
          /\ Src(e) \in OutsideRegion /\ Dst(e) \in OutsideRegion /\ Src(e) # Dst(e)
          /\ get_group_for_node(g, Src(e)) # {} /\ get_group_for_node(g, Dst(e)) # {}
    /\ EnteringEdges # {}
    /\ \E e \in Edges(g) : Src(e) \in OutsideRegion /\ Dst(e) \in InsertedNodes


\* The same for the replace_dtv of a refine_formal step, where the nodes
\* carry different bounds: a node outside the formal's subgraph keeps its
\* index, bounds and keys.
RefineKeepsOutside ==
    [][(/\ refining /\ skb.todo # <<>> /\ skb'.pass # "panicked"
        /\ op'.name \in {"refine_formal_in", "refine_formal_out"})
          => \A n \in node_indices(g) \ get_reachable_idxs(g, get_node(g, Head(skb.todo))) :
                /\ n \in node_indices(g')
                /\ g'.nd[n] = g.nd[n]
                /\ get_group_for_node(g', n) = get_group_for_node(g, n)]_vars


---------------------------------------------------------------------------
(* C29: after add_nodes_and_initial_edges returned Ok every                *)
(* DerivedTypeVar on either side of a constraint of the SCC has a node in  *)
(* nd_graph, also an external variable callee:tag.path whose path has no   *)
(* node in the callee's sketch, and nd_graph is not empty: the unwraps of  *)
(* constraint_quotients never fail.                                        *)
C29_EveryVariableHasNode ==
    /\ (skb.pass = "scc" /\ skb.stage = "nodes")
           => /\ node_indices(g) # {}
              /\ \A i \in DOMAIN skb.sig :
                    has_node(g, skb.sig[i][1]) /\ has_node(g, skb.sig[i][2])
    /\ skb.pass = "scc" => skb.stage # "panicked"

=============================================================================
